---------------------------- MODULE Spec2Model ----------------------------
(***************************************************************************)
(* Model of the Obsidian HTTP MCP plugin: the authenticated request        *)
(* gateway (handleRequest, checkRateLimit), the method dispatcher          *)
(* (executeMethod, callTool) and the patch engine (patchContent).          *)
(*                                                                         *)
(* Text is a sequence of one-character strings.  Indices and substring     *)
(* bounds are 0-based, as in the JavaScript source.  The two regular       *)
(* expressions of patchContent are modelled by the matches a JavaScript    *)
(* engine returns for them: \s matches a line terminator as well as a      *)
(* blank, ^ and $ (flag "m") match at line boundaries, the match is the    *)
(* leftmost one, and quantifiers are greedy unless written lazy.           *)
(***************************************************************************)
EXTENDS Integers, Sequences, FiniteSets, TLC

VARIABLES vault, before, requestCounts, now, settings, plugins, req, res, call, ret,
          hist, pending, stdout

vars ==
  <<vault, before, requestCounts, now, settings, plugins, req, res, call, ret, hist,
    pending, stdout>>

-----------------------------------------------------------------------------
(* Bounds of the model *)

\* documents have at most MaxLines lines
MaxLines == 3
\* the largest rateLimitPerMinute value explored
MaxRate == 2
\* the clock stops advancing after MaxTicks ticks of TickMs
MaxTicks == 4
\* no request is accepted that would grow a document beyond MaxDocLen characters
MaxDocLen == 5
\* at most MaxPatches successive patches of one metadata block are explored
MaxPatches == 3
\* the documents searched have at most MaxSearchLen letters, and one longer example
MaxSearchLen == 3
\* the largest context length explored
MaxContext == 2

-----------------------------------------------------------------------------
(* Text primitives *)

NL == "\n"

Min(S) == CHOOSE x \in S : \A y \in S : x <= y

Max(S) == CHOOSE x \in S : \A y \in S : x >= y

\* s.charAt(i), 0-based
At(s, i) == s[i + 1]

\* s.substring(a, b) for 0 <= a <= b <= s.length
Substring(s, a, b) == SubSeq(s, a + 1, b)

\* s.substring(a)
SubstringFrom(s, a) == SubSeq(s, a + 1, Len(s))

\* the regular expression class \s, on the characters of the model
IsWs(c) == c \in {" ", "\n", "\t"}

IsHash(c) == c = "#"

IsNotNL(c) == c # NL

\* the literal t occurs in s at offset p
StartsWithAt(s, p, t) ==
  /\ p + Len(t) <= Len(s)
  /\ \A i \in 0 .. (Len(t) - 1) : At(s, p + i) = At(t, i)

\* the character classes used: \s, #, [^\n], blanks within a line, and 0
InClass(class, c) ==
  CASE class = "IsWs" -> IsWs(c)
    [] class = "IsHash" -> IsHash(c)
    [] class = "IsNotNL" -> IsNotNL(c)
    [] class = "IsBlank" -> c \in {" ", "\t"}
    [] OTHER -> c = "0"

\* the length of the longest run of characters of a class that starts at p
RunLen(s, p, class) ==
  CHOOSE k \in 0 .. (Len(s) - p) :
    /\ \A i \in 0 .. (k - 1) : InClass(class, At(s, p + i))
    /\ (p + k = Len(s) \/ ~InClass(class, At(s, p + k)))

\* the assertion ^ under flag "m": start of input or just after a line terminator
AtLineStart(s, p) == p = 0 \/ At(s, p - 1) = NL

\* the assertion $ under flag "m": end of input or just before a line terminator
AtLineEnd(s, p) == p = Len(s) \/ At(s, p) = NL

\* \s*$ tried at offset q: the end of the greedy match, or -1 when none exists
TailEnd(s, q) ==
  LET J == {j \in 0 .. RunLen(s, q, "IsWs") : AtLineEnd(s, q + j)}
  IN  IF q > Len(s) \/ J = {} THEN -1 ELSE q + Max(J)

NoMatch == [index |-> -1, end |-> -1, group |-> << >>]

-----------------------------------------------------------------------------
(* Patch engine: target_type "heading" *)

\* new RegExp(`^#{1,6}\\s+${target}\\s*$`, "m") tried at offset p:
\* the end of the match, or -1.  target is a literal without metacharacters.
HeadingMatchAt(s, target, p) ==
  LET h == RunLen(s, p, "IsHash")
      w == RunLen(s, p + h, "IsWs")
      W == {k \in 1 .. w :
              /\ StartsWithAt(s, p + h + k, target)
              /\ TailEnd(s, p + h + k + Len(target)) # -1}
  IN  IF AtLineStart(s, p) /\ h >= 1 /\ h <= 6 /\ W # {}
      THEN TailEnd(s, p + h + Max(W) + Len(target))
      ELSE -1

\* fileContent.match(headingRegex): the leftmost match
HeadingMatch(s, target) ==
  LET P == {p \in 0 .. (Len(s) - 1) : HeadingMatchAt(s, target, p) # -1}
  IN  IF P = {} THEN NoMatch
      ELSE [index |-> Min(P), end |-> HeadingMatchAt(s, target, Min(P)),
            group |-> << >>]

\* restOfContent.match(new RegExp(`^#{1,6}\\s+`, "m")).index, or -1
NextHeadingIndex(rest) ==
  LET P == {p \in 0 .. (Len(rest) - 1) :
              /\ AtLineStart(rest, p)
              /\ RunLen(rest, p, "IsHash") \in 1 .. 6
              /\ RunLen(rest, p + RunLen(rest, p, "IsHash"), "IsWs") >= 1}
  IN  IF P = {} THEN -1 ELSE Min(P)

\* the end of the section that follows a heading match ending at matchEnd
SectionEnd(fileContent, matchEnd) ==
  LET restOfContent == SubstringFrom(fileContent, matchEnd)
      nextIndex == NextHeadingIndex(restOfContent)
  IN  IF nextIndex # -1 THEN matchEnd + nextIndex ELSE Len(fileContent)

ValidOps == {"append", "prepend", "replace"}

\* the switch (operation) of the heading branch
NewSectionContent(operation, sectionContent, content) ==
  CASE operation = "append" -> sectionContent \o content
    [] operation = "prepend" -> content \o sectionContent
    [] OTHER -> content

\* PatchHeading without the default case of its switch: an unknown operation replaces
PatchHeading_NoDefaultCase(fileContent, operation, target, content) ==
  LET match == HeadingMatch(fileContent, target)
      sectionEnd == SectionEnd(fileContent, match.end)
      sectionContent == Substring(fileContent, match.end, sectionEnd)
  IN  IF match.index = -1
      THEN [error |-> "Heading not found", text |-> fileContent]
      ELSE [error |-> "",
            text |-> Substring(fileContent, 0, match.end)
                     \o NewSectionContent(operation, sectionContent, content)
                     \o SubstringFrom(fileContent, sectionEnd)]

\* the heading branch of patchContent: [error, text]
PatchHeading(fileContent, operation, target, content) ==
  LET match == HeadingMatch(fileContent, target)
      sectionEnd == SectionEnd(fileContent, match.end)
      sectionContent == Substring(fileContent, match.end, sectionEnd)
  IN  IF match.index = -1
      THEN [error |-> "Heading not found", text |-> fileContent]
      ELSE IF operation \notin ValidOps
      THEN [error |-> "Invalid operation", text |-> fileContent]
      ELSE [error |-> "",
            text |-> Substring(fileContent, 0, match.end)
                     \o NewSectionContent(operation, sectionContent, content)
                     \o SubstringFrom(fileContent, sectionEnd)]

-----------------------------------------------------------------------------
(* Patch engine: target_type "block" *)

Marker(target) == <<"^">> \o target

\* new RegExp(`([^\n]*?)\\s*\\^${target}\\s*$`, "m") tried at offset p with
\* the lazy group taking g characters: the end of the match, or -1
BlockMatchAt(s, target, p, g) ==
  LET w == RunLen(s, p + g, "IsWs")
      W == {k \in 0 .. w :
              /\ StartsWithAt(s, p + g + k, Marker(target))
              /\ TailEnd(s, p + g + k + 1 + Len(target)) # -1}
  IN  IF g <= RunLen(s, p, "IsNotNL") /\ W # {}
      THEN TailEnd(s, p + g + Max(W) + 1 + Len(target))
      ELSE -1

\* fileContent.match(blockRegex): leftmost start, shortest group
BlockMatch(s, target) ==
  LET G(p) == {g \in 0 .. (Len(s) - p) : BlockMatchAt(s, target, p, g) # -1}
      P == {p \in 0 .. Len(s) : G(p) # {}}
  IN  IF P = {} THEN NoMatch
      ELSE LET p == Min(P)
               g == Min(G(p))
           IN  [index |-> p, end |-> BlockMatchAt(s, target, p, g),
                group |-> Substring(s, p, p + g)]

\* the switch (operation) of the block branch
NewBlockContent(operation, blockContent, target, content) ==
  CASE operation = "append" -> blockContent \o content \o <<" ">> \o Marker(target)
    [] operation = "prepend" -> content \o blockContent \o <<" ">> \o Marker(target)
    [] OTHER -> content \o <<" ">> \o Marker(target)

\* the block branch of patchContent: [error, text]
PatchBlock(fileContent, operation, target, content) ==
  LET match == BlockMatch(fileContent, target)
  IN  IF match.index = -1
      THEN [error |-> "Block reference not found", text |-> fileContent]
      ELSE IF operation \notin ValidOps
      THEN [error |-> "Invalid operation", text |-> fileContent]
      ELSE [error |-> "",
            text |-> Substring(fileContent, 0, match.index)
                     \o NewBlockContent(operation, match.group, target, content)
                     \o SubstringFrom(fileContent, match.end)]

-----------------------------------------------------------------------------
(* Structured values of the metadata block (frontmatter).  Every value is a *)
(* record of one shape: t is the JavaScript type, s the text of a scalar,   *)
(* keys/items the entries of a mapping, items the elements of an array.     *)

ScalarVal(t, s) == [t |-> t, s |-> s, keys |-> << >>, items |-> << >>]

StrVal(s) == ScalarVal("str", s)

Undefined == ScalarVal("undefined", << >>)

EmptyObj == [t |-> "obj", s |-> << >>, keys |-> << >>, items |-> << >>]

\* the property name of array index i (arrays of the model stay below ten elements)
IndexKey(i) == <<<<"0", "1", "2", "3", "4", "5", "6", "7", "8", "9">>[i + 1]>>

\* an array is an object whose elements sit under the index keys "0", "1", ...
ArrVal(items) ==
  [t |-> "arr", s |-> << >>,
   keys |-> [i \in 1 .. Len(items) |-> IndexKey(i - 1)], items |-> items]

IsIndexKey(k) == Len(k) = 1 /\ k[1] \in {"0", "1", "2", "3", "4", "5", "6", "7", "8", "9"}

\* the positions of an array's elements and of its named properties
ElementPos(a) == {i \in 1 .. Len(a.keys) : IsIndexKey(a.keys[i])}

RECURSIVE Pick(_, _, _)
\* the subsequence of q at the positions of P that are >= from, in order
Pick(q, P, from) ==
  IF from > Len(q) THEN << >>
  ELSE (IF from \in P THEN <<q[from]>> ELSE << >>) \o Pick(q, P, from + 1)

Elements(a) == Pick(a.items, ElementPos(a), 1)

\* an array rebuilt from new elements, its named properties kept
WithElements(a, items) ==
  LET named == (1 .. Len(a.keys)) \ ElementPos(a)
  IN  [ArrVal(items) EXCEPT !.keys = @ \o Pick(a.keys, named, 1),
                            !.items = @ \o Pick(a.items, named, 1)]

IsDigit(c) == c \in {"0", "1", "2", "3", "4", "5", "6", "7", "8", "9"}

\* what JSON.parse throws on
Invalid == ScalarVal("invalid", << >>)

\* JSON.parse of a scalar literal: true, false, null, an unsigned integer
\* without a leading zero, or a string literal without escapes
JsonScalar(value) ==
  CASE value = <<"t", "r", "u", "e">> -> ScalarVal("bool", value)
    [] value = <<"f", "a", "l", "s", "e">> -> ScalarVal("bool", value)
    [] value = <<"n", "u", "l", "l">> -> ScalarVal("null", value)
    [] /\ Len(value) > 0
       /\ \A i \in 1 .. Len(value) : IsDigit(value[i])
       /\ (Len(value) = 1 \/ value[1] # "0") -> ScalarVal("num", value)
    [] /\ Len(value) >= 2
       /\ value[1] = "\"" /\ value[Len(value)] = "\""
       /\ \A i \in 2 .. (Len(value) - 1) : value[i] \notin {"\"", "\\"} ->
         StrVal(SubSeq(value, 2, Len(value) - 1))
    [] OTHER -> Invalid

\* JSON.parse(value) on contents without white space around the tokens,
\* signs, fractions or exponents: a scalar literal, the empty object, or an
\* array of at most one scalar
JsonParse(value) ==
  CASE value = <<"{", "}">> -> EmptyObj
    [] value = <<"[", "]">> -> ArrVal(<< >>)
    [] Len(value) > 2 /\ value[1] = "[" /\ value[Len(value)] = "]" ->
         IF JsonScalar(SubSeq(value, 2, Len(value) - 1)) = Invalid
         THEN Invalid
         ELSE ArrVal(<<JsonScalar(SubSeq(value, 2, Len(value) - 1))>>)
    [] OTHER -> JsonScalar(value)

\* tryParseValue: the value JSON.parse gives, and when it throws: undefined
\* for "undefined", the number for a content Number() accepts (here a digit
\* string with leading zeros), and the content as a string otherwise.  The
\* tests for "true", "false" and "null" of the catch block are never
\* reached, JSON.parse accepting these three.
TryParseValue(value) ==
  CASE JsonParse(value) # Invalid -> JsonParse(value)
    [] value = <<"u", "n", "d", "e", "f", "i", "n", "e", "d">> -> Undefined
    [] Len(value) > 0 /\ (\A i \in 1 .. Len(value) : IsDigit(value[i])) ->
         ScalarVal("num", SubstringFrom(value, RunLen(value, 0, "IsZero")
                                               - (IF RunLen(value, 0, "IsZero") = Len(value)
                                                  THEN 1 ELSE 0)))
    [] OTHER -> StrVal(value)

\* obj[key], undefined when the key is absent
GetKey(obj, key) ==
  IF \E i \in 1 .. Len(obj.keys) : obj.keys[i] = key
  THEN obj.items[CHOOSE i \in 1 .. Len(obj.keys) : obj.keys[i] = key]
  ELSE Undefined

\* obj[key] = v
SetKey(obj, key, v) ==
  IF \E i \in 1 .. Len(obj.keys) : obj.keys[i] = key
  THEN [obj EXCEPT !.items[CHOOSE i \in 1 .. Len(obj.keys) : obj.keys[i] = key] = v]
  ELSE [obj EXCEPT !.keys = Append(@, key), !.items = Append(@, v)]

\* !v
Falsy(v) ==
  \/ v.t \in {"undefined", "null"}
  \/ v.t = "bool" /\ v.s = <<"f", "a", "l", "s", "e">>
  \/ v.t = "num" /\ v.s = <<"0">>
  \/ v.t = "str" /\ v.s = << >>

\* the intermediate step: if (!obj[key] || typeof obj[key] !== "object") obj[key] = {}
\* (typeof is "object" for a mapping and for an array)
Descend(obj, key) ==
  IF ~Falsy(GetKey(obj, key)) /\ GetKey(obj, key).t \in {"obj", "arr"}
  THEN GetKey(obj, key)
  ELSE EmptyObj

\* String(v) as used by the + operator on a string operand, for scalars
ToText(v) ==
  IF v.t = "undefined" THEN <<"u", "n", "d", "e", "f", "i", "n", "e", "d">> ELSE v.s

\* the leaf step of setNestedValue
SetLeaf(obj, key, parsedValue) == SetKey(obj, key, parsedValue)

\* AppendLeaf putting the new value before the existing one
AppendLeaf_NewFirst(obj, key, parsedValue) ==
  LET existing == GetKey(obj, key)
  IN  CASE existing.t = "arr" ->
             SetKey(obj, key, WithElements(existing, Append(Elements(existing), parsedValue)))
        [] existing.t = "str" ->
             SetKey(obj, key, StrVal(existing.s \o ToText(parsedValue)))
        [] existing.t = "undefined" -> SetKey(obj, key, parsedValue)
        [] OTHER -> SetKey(obj, key, ArrVal(<<parsedValue, existing>>))

\* the leaf step of appendNestedValue
AppendLeaf(obj, key, parsedValue) ==
  LET existing == GetKey(obj, key)
  IN  CASE existing.t = "arr" ->
             SetKey(obj, key, WithElements(existing, Append(Elements(existing), parsedValue)))
        [] existing.t = "str" ->
             SetKey(obj, key, StrVal(existing.s \o ToText(parsedValue)))
        [] existing.t = "undefined" -> SetKey(obj, key, parsedValue)
        [] OTHER -> SetKey(obj, key, ArrVal(<<existing, parsedValue>>))

\* the leaf step of prependNestedValue
PrependLeaf(obj, key, parsedValue) ==
  LET existing == GetKey(obj, key)
  IN  CASE existing.t = "arr" ->
             SetKey(obj, key, WithElements(existing, <<parsedValue>> \o Elements(existing)))
        [] existing.t = "str" ->
             SetKey(obj, key, StrVal(ToText(parsedValue) \o existing.s))
        [] existing.t = "undefined" -> SetKey(obj, key, parsedValue)
        [] OTHER -> SetKey(obj, key, ArrVal(<<parsedValue, existing>>))

RECURSIVE NestedValue(_, _, _, _)
\* setNestedValue, appendNestedValue and prependNestedValue, by operation
NestedValue(operation, obj, keys, value) ==
  IF Len(keys) = 1
  THEN CASE operation = "replace" -> SetLeaf(obj, keys[1], TryParseValue(value))
         [] operation = "append" -> AppendLeaf(obj, keys[1], TryParseValue(value))
         [] OTHER -> PrependLeaf(obj, keys[1], TryParseValue(value))
  ELSE SetKey(obj, keys[1],
              NestedValue(operation, Descend(obj, keys[1]), Tail(keys), value))

RECURSIVE Split(_, _)
\* target.split(sep)
Split(s, sep) ==
  IF \E i \in 1 .. Len(s) : s[i] = sep
  THEN LET i == Min({j \in 1 .. Len(s) : s[j] = sep})
       IN  <<SubSeq(s, 1, i - 1)>> \o Split(SubSeq(s, i + 1, Len(s)), sep)
  ELSE <<s>>

\* the frontmatter branch of patchContent: the callback handed to
\* processFrontMatter; an error thrown by the callback prevents the write
PatchFrontmatter(frontmatter, operation, target, content) ==
  IF operation \notin ValidOps
  THEN [error |-> "Invalid operation", fm |-> frontmatter]
  ELSE [error |-> "",
        fm |-> NestedValue(operation, frontmatter, Split(target, "."), content)]

-----------------------------------------------------------------------------
(* Document store (the vault) *)

NoEntry == [kind |-> "none", text |-> << >>, fm |-> EmptyObj]

Folder == [kind |-> "folder", text |-> << >>, fm |-> EmptyObj]

File(text) == [kind |-> "file", text |-> text, fm |-> EmptyObj]

\* getAbstractFileByPath: a path outside the vault has no entry
Lookup(v, filepath) == IF filepath \in DOMAIN v THEN v[filepath] ELSE NoEntry

\* !file || file.hasOwnProperty("children")
NotAFile(entry) == entry.kind # "file"

\* processFrontMatter(file, callback): the metadata block is written unless
\* the callback threw
ProcessFrontMatter(v, filepath, f) ==
  IF f.error # ""
  THEN [error |-> f.error, vault |-> v]
  ELSE [error |-> "", vault |-> [v EXCEPT ![filepath].fm = f.fm]]

\* vault.modify(file, newContent), reached unless the branch threw
Modify(v, filepath, r) ==
  IF r.error # ""
  THEN [error |-> r.error, vault |-> v]
  ELSE [error |-> "", vault |-> [v EXCEPT ![filepath].text = r.text]]

\* patchContent(params): the error thrown ("" when none) and the vault left
PatchContent(v, params) ==
  LET file == Lookup(v, params.filepath)
  IN  CASE NotAFile(file) -> [error |-> "File not found", vault |-> v]
        [] params.target_type = "frontmatter" ->
             ProcessFrontMatter(v, params.filepath,
               PatchFrontmatter(file.fm, params.operation, params.target, params.content))
        [] params.target_type = "heading" ->
             Modify(v, params.filepath,
               PatchHeading(file.text, params.operation, params.target, params.content))
        [] params.target_type = "block" ->
             Modify(v, params.filepath,
               PatchBlock(file.text, params.operation, params.target, params.content))
        [] OTHER -> [error |-> "Invalid target type", vault |-> v]

-----------------------------------------------------------------------------
(* The patch engine applied to a bounded set of documents *)

\* the lines documents are made of: empty, an empty heading, plain text, the
\* heading H, a block marker alone and a block line
Lines ==
  {<< >>, <<"#">>, <<"H">>, <<"#", " ", "H">>, <<"^", "H">>, <<"H", " ", "^", "H">>}

RECURSIVE DocsOfLines(_)
\* the documents of at most n lines (a last empty line is a final line terminator)
DocsOfLines(n) ==
  IF n = 1 THEN Lines
  ELSE LET D == DocsOfLines(n - 1)
       IN  D \cup {d \o <<NL>> \o l : d \in D, l \in Lines}

Docs == DocsOfLines(MaxLines)

Contents == {<<"x">>, <<NL, "x">>}

TheTarget == <<"H">>

ValidTargetTypes == {"heading", "block", "frontmatter"}

\* the patch_content arguments explored
PatchParams ==
  [filepath : {"a.md"}, operation : ValidOps \cup {"delete"},
   target_type : ValidTargetTypes \cup {"line"},
   target : {TheTarget}, content : Contents]
  \cup
  [filepath : {"dir", "no.md"}, operation : {"append"}, target_type : {"heading"},
   target : {TheTarget}, content : {<<"x">>}]

NoCall == [method |-> "", params |-> << >>]

NoRet == [error |-> "", queries |-> 0]

NoReq == [httpMethod |-> ""]

NoRes == [status |-> 0, kind |-> ""]

EmptyCounts == [c \in {} |-> 0]

DefaultSettings ==
  [apiKey |-> "secret", rateLimitPerMinute |-> MaxRate, enableDataviewQueries |-> TRUE]

OtherDoc == <<"#", " ", "H", NL, "H">>

InitPatch ==
  /\ \E d \in Docs :
       vault = [p \in {"a.md", "b.md", "dir"} |->
                  CASE p = "a.md" -> File(d)
                    [] p = "b.md" -> File(OtherDoc)
                    [] OTHER -> Folder]
  /\ before = vault
  /\ requestCounts = EmptyCounts
  /\ now = 0
  /\ settings = DefaultSettings
  /\ plugins = {"dataview"}
  /\ req = NoReq
  /\ res = NoRes
  /\ call = NoCall
  /\ ret = NoRet
  /\ hist = EmptyCounts
  /\ pending = << >>
  /\ stdout = << >>

\* one call of patchContent(params)
PatchCall(params) ==
  /\ call = NoCall
  /\ call' = [method |-> "patch_content", params |-> params]
  /\ before' = vault
  /\ vault' = PatchContent(vault, params).vault
  /\ ret' = [error |-> PatchContent(vault, params).error]
  /\ UNCHANGED <<requestCounts, now, settings, plugins, req, res, hist, pending, stdout>>

NextPatch == \E params \in PatchParams : PatchCall(params)

SpecPatch == InitPatch /\ [][NextPatch]_vars

-----------------------------------------------------------------------------
(* The frontmatter branch applied several times to one document *)

\* the contents explored: a string, a number, null and the word undefined
FmContents ==
  {<<"a">>, <<"1">>, <<"n", "u", "l", "l">>,
   <<"u", "n", "d", "e", "f", "i", "n", "e", "d">>}

\* the key paths explored: k and m.k
FmTargets == {<<"k">>, <<"m", ".", "k">>}

\* the patch_content arguments explored on the metadata block
FmParams ==
  [filepath : {"a.md"}, operation : ValidOps, target_type : {"frontmatter"},
   target : FmTargets, content : FmContents]

\* hist keeps the metadata block the document started with and the calls made
InitFm ==
  /\ vault = [p \in {"a.md"} |-> File(<<"x">>)]
  /\ before = vault
  /\ requestCounts = EmptyCounts
  /\ now = 0
  /\ settings = DefaultSettings
  /\ plugins = {"dataview"}
  /\ req = NoReq
  /\ res = NoRes
  /\ call = NoCall
  /\ ret = NoRet
  /\ hist = [start |-> EmptyObj, calls |-> << >>]
  /\ pending = << >>
  /\ stdout = << >>

\* one call of patchContent(params) on the metadata block
FmPatchCall(params) ==
  /\ Len(hist.calls) < MaxPatches
  /\ \E out \in {PatchContent(vault, params)} :
       /\ vault' = out.vault
       /\ ret' = [error |-> out.error]
  /\ call' = [method |-> "patch_content", params |-> params]
  /\ before' = vault
  /\ hist' = [hist EXCEPT !.calls = Append(@, params)]
  /\ UNCHANGED <<requestCounts, now, settings, plugins, req, res, pending, stdout>>

NextFm == \E params \in FmParams : FmPatchCall(params)

SpecFm == InitFm /\ [][NextFm]_vars

-----------------------------------------------------------------------------
(* Dispatcher: executeMethod and callTool *)

\* the arguments object of a call; a member a call does not carry keeps its default
\* an optional text argument: given with a text, or not given (undefined)
Given(text) == [present |-> TRUE, text |-> text]

NotGiven == [present |-> FALSE, text |-> << >>]

\* the default value of simpleSearch's contextLength parameter
DefaultContextLength == 100

\* the arguments object of a tool: filepath "" and dirpath "absent" stand for
\* members that are not given, confirm FALSE for a falsy or missing confirm
Args(filepath, operation, target_type, target, content) ==
  [filepath |-> filepath, operation |-> operation, target_type |-> target_type,
   target |-> target, content |-> content, confirm |-> FALSE,
   dirpath |-> "absent", query |-> NotGiven,
   context_length |-> DefaultContextLength]

\* the {} of "params.arguments || {}"
NoArgs == Args("", "", "", << >>, << >>)

\* the params member of a request: the arguments of a direct method, with the
\* name and arguments members that tools/call reads
Params(filepath, operation, target_type, target, content) ==
  [filepath |-> filepath, operation |-> operation, target_type |-> target_type,
   target |-> target, content |-> content, confirm |-> FALSE,
   dirpath |-> "absent", query |-> NotGiven,
   context_length |-> DefaultContextLength, name |-> "", arguments |-> NoArgs]

\* the {} of "request.params || {}"
NoParams == Params("", "", "", << >>, << >>)

\* the params of tools/call for a tool and its arguments
ToolCall(name, args) == [NoParams EXCEPT !.name = name, !.arguments = args]

\* results: kind "void" (undefined), "info" (static metadata), "text" (a
\* document's text), "list" (paths), "hits" (search results), "rows" (the
\* adapter's answer), "rendered", "content" (the tools/call envelope)
Result(kind, text, list) == [kind |-> kind, text |-> text, list |-> list]

Void == Result("void", << >>, << >>)

\* the outcome of a handler: the error thrown ("" when none), the result, the
\* vault left, the number of calls made to the Dataview adapter, and whether
\* the handler ever returns or throws
Ok(v, result) ==
  [error |-> "", result |-> result, vault |-> v, queries |-> 0, returns |-> TRUE]

Fail(v, message) ==
  [error |-> message, result |-> Void, vault |-> v, queries |-> 0, returns |-> TRUE]

\* a handler that loops forever
Never(v) == [Ok(v, Void) EXCEPT !.returns = FALSE]

\* filepath.substring(0, filepath.lastIndexOf("/")) on the paths of the model
DirOf(filepath) == IF filepath = "dir/n.md" THEN "dir" ELSE ""

\* the paths of the model in sort() order
PathOrder == <<"a.md", "b.md", "c.txt", "dir", "dir/n.md", "no.md">>

\* the extension of a path of the model
Extension(filepath) ==
  CASE filepath = "c.txt" -> "txt"
    [] filepath = "dir" -> ""
    [] OTHER -> "md"

\* listFilesInVault
ListFilesInVault(v) ==
  Pick(PathOrder, {i \in 1 .. Len(PathOrder) : Lookup(v, PathOrder[i]).kind = "file"}, 1)

\* vault.getMarkdownFiles(): the files with the extension md
GetMarkdownFiles(v) ==
  Pick(PathOrder,
       {i \in 1 .. Len(PathOrder) :
          /\ Lookup(v, PathOrder[i]).kind = "file"
          /\ Extension(PathOrder[i]) = "md"}, 1)

\* listFilesInDir: the files whose path starts with dirpath + "/";
\* dirpath.endsWith throws when dirpath is not given
ListFilesInDir(v, dirpath) ==
  IF dirpath = "absent"
  THEN Fail(v, "Cannot read properties of undefined")
  ELSE Ok(v, Result("list", << >>,
             Pick(PathOrder,
                  {i \in 1 .. Len(PathOrder) :
                     /\ Lookup(v, PathOrder[i]).kind = "file"
                     /\ DirOf(PathOrder[i]) = dirpath}, 1)))

\* getFileContents
GetFileContents(v, filepath) ==
  IF NotAFile(Lookup(v, filepath))
  THEN Fail(v, "File not found")
  ELSE Ok(v, Result("text", Lookup(v, filepath).text, << >>))

\* vault.create / vault.createFolder / vault.modify / vault.delete
Put(v, filepath, entry) ==
  [p \in DOMAIN v \cup {filepath} |-> IF p = filepath THEN entry ELSE v[p]]

\* AppendContent replacing the text of an existing file
AppendContent_Overwrites(v, filepath, content) ==
  LET file == Lookup(v, filepath)
      dir == DirOf(filepath)
      withDir == IF dir # "" /\ Lookup(v, dir).kind = "none"
                 THEN Put(v, dir, Folder) ELSE v
  IN  CASE filepath = "" -> Fail(v, "Cannot read properties of undefined")
        [] file.kind = "none" -> Ok(Put(withDir, filepath, File(content)), Void)
        [] file.kind = "folder" -> Fail(v, "Path is a directory")
        [] OTHER -> Ok([v EXCEPT ![filepath].text = content], Void)

\* appendContent; filepath.substring throws when filepath is not given
AppendContent(v, filepath, content) ==
  LET file == Lookup(v, filepath)
      dir == DirOf(filepath)
      withDir == IF dir # "" /\ Lookup(v, dir).kind = "none"
                 THEN Put(v, dir, Folder) ELSE v
  IN  CASE filepath = "" -> Fail(v, "Cannot read properties of undefined")
        [] file.kind = "none" -> Ok(Put(withDir, filepath, File(content)), Void)
        [] file.kind = "folder" -> Fail(v, "Path is a directory")
        [] OTHER -> Ok([v EXCEPT ![filepath].text = @ \o content], Void)

\* vault.delete(file): the entry goes, and with a folder the files in it
Delete(v, filepath) ==
  [p \in DOMAIN v |-> IF p = filepath \/ DirOf(p) = filepath THEN NoEntry ELSE v[p]]

\* DeleteFile looking the path up before it tests confirm
DeleteFile_LookupFirst(v, filepath, confirm) ==
  CASE Lookup(v, filepath).kind = "none" -> Fail(v, "File not found")
    [] ~confirm -> Fail(v, "Deletion requires confirmation")
    [] OTHER -> Ok(Delete(v, filepath), Void)

\* deleteFile
DeleteFile(v, filepath, confirm) ==
  CASE ~confirm -> Fail(v, "Deletion requires confirmation")
    [] Lookup(v, filepath).kind = "none" -> Fail(v, "File not found")
    [] OTHER -> Ok(Delete(v, filepath), Void)

-----------------------------------------------------------------------------
(* Search: simpleSearch *)

\* toLowerCase on the letters of the model
ToLower(c) ==
  CASE c = "C" -> "c"
    [] c = "A" -> "a"
    [] c = "T" -> "t"
    [] OTHER -> c

ToLowerCase(s) == [i \in 1 .. Len(s) |-> ToLower(s[i])]

\* s.indexOf(q, from): the first offset >= from at which q occurs, or -1; the
\* empty string occurs at every offset up to s.length, and from is clamped
IndexOf(s, q, from) ==
  LET P == {p \in Min({from, Len(s)}) .. Len(s) : StartsWithAt(s, p, q)}
  IN  IF P = {} THEN -1 ELSE Min(P)

\* Hit whose context window forgets the length of the query
Hit_WindowWithoutQuery(path, content, query, contextLength, index) ==
  [file |-> path,
   match |-> Substring(content, Max({0, index - contextLength}),
                       Min({Len(content), index + contextLength})),
   position |-> index]

\* one entry of the results array
Hit(path, content, query, contextLength, index) ==
  [file |-> path,
   match |-> Substring(content, Max({0, index - contextLength}),
                       Min({Len(content), index + Len(query) + contextLength})),
   position |-> index]

\* the while loop never ends: some index it reaches is found again by
\* indexOf(lowerQuery, index + 1)
LoopsForever(content, query) ==
  \E i \in 0 .. Len(content) :
    /\ IndexOf(ToLowerCase(content), ToLowerCase(query), i) = i
    /\ IndexOf(ToLowerCase(content), ToLowerCase(query), i + 1) = i

RECURSIVE SearchFile(_, _, _, _, _)
\* the while loop of simpleSearch over one file, entered with index
SearchFile(path, content, query, contextLength, index) ==
  IF index = -1 \/ LoopsForever(content, query) THEN << >>
  ELSE <<Hit(path, content, query, contextLength, index)>>
       \o SearchFile(path, content, query, contextLength,
                     IndexOf(ToLowerCase(content), ToLowerCase(query), index + 1))

RECURSIVE SearchFiles(_, _, _, _)
\* the for loop of simpleSearch over the files
SearchFiles(v, files, query, contextLength) ==
  IF files = << >> THEN << >>
  ELSE SearchFile(Head(files), v[Head(files)].text, query, contextLength,
                  IndexOf(ToLowerCase(v[Head(files)].text), ToLowerCase(query), 0))
       \o SearchFiles(v, Tail(files), query, contextLength)

\* simpleSearch(query, contextLength): query.toLowerCase() throws on a query
\* that is not given as soon as there is a file to scan
SimpleSearch(v, query, contextLength) ==
  CASE GetMarkdownFiles(v) = << >> -> Ok(v, Result("hits", << >>, << >>))
    [] ~query.present -> Fail(v, "Cannot read properties of undefined")
    [] \E i \in 1 .. Len(GetMarkdownFiles(v)) :
         LoopsForever(v[GetMarkdownFiles(v)[i]].text, query.text) -> Never(v)
    [] OTHER -> Ok(v, Result("hits", << >>,
                     SearchFiles(v, GetMarkdownFiles(v), query.text, contextLength)))

-----------------------------------------------------------------------------
(* Dataview: the structured-query adapter *)

\* the opening fence of a Dataview block (three backquotes and the word
\* dataview) and the closing fence (three backquotes), each written as one
\* symbol of a text
DataviewFence == "[fence]dataview"

Fence == "[fence]"

\* the queries the adapter refuses
BadQuery == <<"?">>

\* this.app.plugins.plugins.dataview.api is there
Installed(pl) == "dataview" \in pl

\* dataviewQuery(query): one call of dataview.query
DataviewQuery(v, pl, query) ==
  CASE ~Installed(pl) -> Fail(v, "Dataview plugin is not installed or enabled")
    [] query.text = BadQuery ->
         [Fail(v, "Dataview query failed") EXCEPT !.queries = 1]
    [] OTHER -> [Ok(v, Result("rows", query.text, << >>)) EXCEPT !.queries = 1]

\* validateDataviewQuery(query, type) for type "DQL": it reports instead of throwing
ValidateDataviewQuery(v, pl, query) ==
  IF ~Installed(pl)
  THEN Ok(v, Result("validation", <<"invalid">>, << >>))
  ELSE [Ok(v, Result("validation",
                     IF query.text = BadQuery THEN <<"invalid">> ELSE <<"valid">>,
                     << >>)) EXCEPT !.queries = 1]

RECURSIVE DataviewBlocks(_, _)
\* the number of matches of dqlRegex (flag "g") from position from on: an
\* opening fence, a line terminator and the nearest closing fence
DataviewBlocks(content, from) ==
  LET I == {i \in from .. Len(content) - 2 :
              /\ content[i] = DataviewFence
              /\ content[i + 1] = NL
              /\ \E j \in i + 2 .. Len(content) : content[j] = Fence}
  IN  IF I = {} THEN 0
      ELSE 1 + DataviewBlocks(content,
                 1 + Min({j \in Min(I) + 2 .. Len(content) : content[j] = Fence}))

\* getRenderedContent(filepath): one call of dataview.query for each block
GetRenderedContent(v, pl, filepath) ==
  IF NotAFile(Lookup(v, filepath))
  THEN Fail(v, "File not found")
  ELSE [Ok(v, Result("rendered", Lookup(v, filepath).text, << >>))
          EXCEPT !.queries = IF Installed(pl)
                             THEN DataviewBlocks(Lookup(v, filepath).text, 1)
                             ELSE 0]

-----------------------------------------------------------------------------
(* Dispatcher: executeMethod and callTool, continued *)

\* the tool names that tools/list advertises
ToolNames ==
  {"list_files_in_vault", "list_files_in_dir", "get_file_contents",
   "append_content", "simple_search", "patch_content", "delete_file",
   "dataview_query", "validate_dataview_query", "get_rendered_content"}

\* the outcome of patchContent, which returns nothing
VoidOutcome(p) ==
  [error |-> p.error, result |-> Void, vault |-> p.vault, queries |-> 0,
   returns |-> TRUE]

\* the { content: [{ type: "text", text }] } envelope of callTool, text being
\* a text or the JSON.stringify of a list
Wrap(r, text) ==
  IF r.error # "" \/ ~r.returns THEN r
  ELSE [r EXCEPT !.result = Result("content", text, r.result.list)]

\* WrapText leaving the text out of the envelope
WrapText_Blank(r) == Wrap(r, << >>)

\* callTool returning the text of a result as it is
WrapText(r) == Wrap(r, r.result.text)

\* if (!this.settings.enableDataviewQueries) throw ...
IfEnabled(v, st, out) ==
  IF ~st.enableDataviewQueries THEN Fail(v, "Dataview queries are disabled") ELSE out

\* callTool(toolName, args)
CallTool(v, st, pl, toolName, args) ==
  CASE toolName = "list_files_in_vault" ->
         Ok(v, Result("content", << >>, ListFilesInVault(v)))
    [] toolName = "list_files_in_dir" -> Wrap(ListFilesInDir(v, args.dirpath), << >>)
    [] toolName = "get_file_contents" -> WrapText(GetFileContents(v, args.filepath))
    [] toolName = "append_content" ->
         Wrap(AppendContent(v, args.filepath, args.content), <<"Content appended successfully">>)
    [] toolName = "patch_content" ->
         Wrap(VoidOutcome(PatchContent(v, args)), <<"Content patched successfully">>)
    [] toolName = "simple_search" ->
         Wrap(SimpleSearch(v, args.query, args.context_length), << >>)
    [] toolName = "delete_file" ->
         Wrap(DeleteFile(v, args.filepath, args.confirm), <<"File deleted successfully">>)
    [] toolName = "dataview_query" ->
         IfEnabled(v, st, WrapText(DataviewQuery(v, pl, args.query)))
    [] toolName = "validate_dataview_query" ->
         IfEnabled(v, st, WrapText(ValidateDataviewQuery(v, pl, args.query)))
    [] toolName = "get_rendered_content" ->
         WrapText(GetRenderedContent(v, pl, args.filepath))
    [] OTHER -> Fail(v, "Unknown tool")

\* executeMethod(method, params)
ExecuteMethod(v, st, pl, method, params) ==
  CASE method = "initialize" -> Ok(v, Result("info", <<"initialize">>, << >>))
    [] method = "tools/list" -> Ok(v, Result("info", <<"tools">>, << >>))
    [] method = "tools/call" -> CallTool(v, st, pl, params.name, params.arguments)
    [] method = "list_files_in_vault" -> Ok(v, Result("list", << >>, ListFilesInVault(v)))
    [] method = "list_files_in_dir" -> ListFilesInDir(v, params.dirpath)
    [] method = "get_file_contents" -> GetFileContents(v, params.filepath)
    [] method = "append_content" -> AppendContent(v, params.filepath, params.content)
    [] method = "patch_content" -> VoidOutcome(PatchContent(v, params))
    [] method = "simple_search" -> SimpleSearch(v, params.query, params.context_length)
    [] method = "delete_file" -> DeleteFile(v, params.filepath, params.confirm)
    [] method = "dataview_query" -> IfEnabled(v, st, DataviewQuery(v, pl, params.query))
    [] OTHER -> Fail(v, "Unknown method")

-----------------------------------------------------------------------------
(* Rate limiter *)

\* the literal 60000 of checkRateLimit
WindowMs == 60000

\* CheckRateLimit denying one request too late (count > max for count >= max)
CheckRateLimit_OffByOne(counts, clientIp, t, max) ==
  IF clientIp \notin DOMAIN counts \/ t > counts[clientIp].resetTime
  THEN [allowed |-> TRUE,
        counts |-> [c \in DOMAIN counts \cup {clientIp} |->
                      IF c = clientIp THEN [count |-> 1, resetTime |-> t + WindowMs]
                      ELSE counts[c]]]
  ELSE IF counts[clientIp].count > max
  THEN [allowed |-> FALSE, counts |-> counts]
  ELSE [allowed |-> TRUE, counts |-> [counts EXCEPT ![clientIp].count = @ + 1]]

\* CheckRateLimit counting the requests it denies
CheckRateLimit_CountsDenied(counts, clientIp, t, max) ==
  IF clientIp \notin DOMAIN counts \/ t > counts[clientIp].resetTime
  THEN [allowed |-> TRUE,
        counts |-> [c \in DOMAIN counts \cup {clientIp} |->
                      IF c = clientIp THEN [count |-> 1, resetTime |-> t + WindowMs]
                      ELSE counts[c]]]
  ELSE [allowed |-> counts[clientIp].count < max,
        counts |-> [counts EXCEPT ![clientIp].count = @ + 1]]

\* CheckRateLimit losing the increment of a request it lets through
CheckRateLimit_LostIncrement(counts, clientIp, t, max) ==
  IF clientIp \notin DOMAIN counts \/ t > counts[clientIp].resetTime
  THEN [allowed |-> TRUE,
        counts |-> [c \in DOMAIN counts \cup {clientIp} |->
                      IF c = clientIp THEN [count |-> 1, resetTime |-> t + WindowMs]
                      ELSE counts[c]]]
  ELSE IF counts[clientIp].count >= max
  THEN [allowed |-> FALSE, counts |-> counts]
  ELSE [allowed |-> TRUE, counts |-> counts]

\* CheckRateLimit opening windows of a quarter of the window length
CheckRateLimit_QuarterWindow(counts, clientIp, t, max) ==
  IF clientIp \notin DOMAIN counts \/ t > counts[clientIp].resetTime
  THEN [allowed |-> TRUE,
        counts |-> [c \in DOMAIN counts \cup {clientIp} |->
                      IF c = clientIp
                      THEN [count |-> 1, resetTime |-> t + WindowMs \div 4]
                      ELSE counts[c]]]
  ELSE IF counts[clientIp].count >= max
  THEN [allowed |-> FALSE, counts |-> counts]
  ELSE [allowed |-> TRUE, counts |-> [counts EXCEPT ![clientIp].count = @ + 1]]

\* checkRateLimit(clientIp) at time t with maximum max: [allowed, counts]
CheckRateLimit(counts, clientIp, t, max) ==
  IF clientIp \notin DOMAIN counts \/ t > counts[clientIp].resetTime
  THEN [allowed |-> TRUE,
        counts |-> [c \in DOMAIN counts \cup {clientIp} |->
                      IF c = clientIp THEN [count |-> 1, resetTime |-> t + WindowMs]
                      ELSE counts[c]]]
  ELSE IF counts[clientIp].count >= max
  THEN [allowed |-> FALSE, counts |-> counts]
  ELSE [allowed |-> TRUE, counts |-> [counts EXCEPT ![clientIp].count = @ + 1]]

-----------------------------------------------------------------------------
(* Gateway: handleRequest *)

\* a response: HTTP status and what the body carries.  kind is "empty" (no
\* body), "http" (an { error } object), "health", "result" or "error" (the
\* JSON-RPC envelopes); id is the JSON text of the echoed id
Response(status, kind, code, message, id, result) ==
  [status |-> status, kind |-> kind, code |-> code, message |-> message,
   id |-> id, result |-> result]

EmptyResponse == Response(200, "empty", 0, "", "", Void)

\* no response at all: the handler never ends and keeps the event loop busy
NoResponse == Response(0, "none", 0, "", "", Void)

HttpError(status, message) == Response(status, "http", 0, message, "", Void)

RpcError(status, code, message, id) == Response(status, "error", code, message, id, Void)

\* AuthOk letting a request without the header through
AuthOk_AbsentHeaderPasses(r, st) == ~r.apiKey.present \/ r.apiKey.value = st.apiKey

\* apiKey !== this.settings.apiKey, the header being undefined when absent
AuthOk(r, st) == r.apiKey.present /\ r.apiKey.value = st.apiKey

\* request.id || null, on the JSON text of the id
IdOrNull(id) == IF id \in {"absent", "null", "0", "false", "\"\""} THEN "null" ELSE id

\* RpcResponse reporting a handler's error whether or not the request has an id
RpcResponse_NotifiedErrors(body, out) ==
  IF ~out.returns THEN NoResponse
  ELSE IF out.error # "" THEN RpcError(200, -32603, out.error, IdOrNull(body.id))
  ELSE IF body.id = "absent" THEN EmptyResponse
  ELSE Response(200, "result", 0, "", body.id, out.result)

\* the response of the inner try/catch: out is the outcome of executeMethod
RpcResponse(body, out) ==
  IF ~out.returns THEN NoResponse
  ELSE IF body.id = "absent" THEN EmptyResponse
  ELSE IF out.error = "" THEN Response(200, "result", 0, "", body.id, out.result)
  ELSE RpcError(200, -32603, out.error, body.id)

\* the inner try/catch of handleRequest around executeMethod
Executed(body, out) ==
  [res |-> RpcResponse(body, out), vault |-> out.vault,
   call |-> [method |-> body.method, params |-> body.params],
   ret |-> [error |-> out.error, queries |-> out.queries]]

\* handleRequest from the body on: [res, vault, call, ret].  JSON.parse
\* throws on an invalid body and reading request.method throws on null; both
\* end in the outer catch
HandleRpc(v, st, pl, body) ==
  CASE body.json \in {"invalid", "null"} ->
         [res |-> RpcError(400, -32700, "Parse error", "null"),
          vault |-> v, call |-> NoCall, ret |-> NoRet]
    [] body.method = "" ->
         [res |-> RpcError(400, -32600, "Invalid request - missing method",
                           IdOrNull(body.id)),
          vault |-> v, call |-> NoCall, ret |-> NoRet]
    [] OTHER -> Executed(body, ExecuteMethod(v, st, pl, body.method, body.params))

\* a served request with the counts the rate limiter left
Counting(rpc, newCounts) ==
  [res |-> rpc.res, counts |-> newCounts, vault |-> rpc.vault,
   call |-> rpc.call, ret |-> rpc.ret]

\* handleRequest(req, res): [res, counts, vault, call, ret]
Handle(r, v, counts, t, st, pl) ==
  LET rate == CheckRateLimit(counts, r.client, t, st.rateLimitPerMinute)
      Done(response, newCounts) ==
        [res |-> response, counts |-> newCounts, vault |-> v,
         call |-> NoCall, ret |-> NoRet]
  IN  CASE r.httpMethod = "OPTIONS" -> Done(EmptyResponse, counts)
        [] ~AuthOk(r, st) -> Done(HttpError(401, "Unauthorized"), counts)
        [] ~rate.allowed -> Done(HttpError(429, "Rate limit exceeded"), rate.counts)
        [] r.url = "/health" -> Done(Response(200, "health", 0, "ok", "", Void), rate.counts)
        [] r.httpMethod # "POST" \/ r.url # "/rpc" ->
             Done(HttpError(404, "Not found"), rate.counts)
        [] OTHER -> Counting(HandleRpc(v, st, pl, r.body), rate.counts)

-----------------------------------------------------------------------------
(* The gateway serving requests *)

Clients == {"10.0.0.1", "10.0.0.2"}

\* the clock advances in steps of half a window, so that a request can arrive
\* exactly at a window's end as well as after it
TickMs == WindowMs \div 2

Header(value) == [present |-> TRUE, value |-> value]

NoHeader == [present |-> FALSE, value |-> ""]

Body(json, method, id, params) ==
  [json |-> json, method |-> method, id |-> id, params |-> params]

NoBody == Body("invalid", "", "absent", NoParams)

\* the method calls sent to /rpc
RpcCalls ==
  {[method |-> "initialize", params |-> NoParams],
   [method |-> "get_file_contents", params |-> Params("a.md", "", "", << >>, << >>)],
   [method |-> "get_file_contents", params |-> Params("no.md", "", "", << >>, << >>)],
   [method |-> "append_content", params |-> Params("a.md", "", "", << >>, <<"x">>)],
   [method |-> "patch_content",
    params |-> Params("a.md", "replace", "heading", TheTarget, <<NL, "x">>)],
   [method |-> "rename_file", params |-> NoParams]}

\* the bodies sent to /rpc: not JSON, the JSON values null and 5, objects
\* without a method, and method calls with and without an id
Bodies ==
  {Body("invalid", "", "absent", NoParams), Body("null", "", "absent", NoParams),
   Body("scalar", "", "absent", NoParams)}
  \cup {Body("object", "", id, NoParams) : id \in {"absent", "1", "0"}}
  \cup {Body("object", c.method, id, c.params) : c \in RpcCalls, id \in {"absent", "1"}}

AppendBody == Body("object", "append_content", "1", Params("a.md", "", "", << >>, <<"x">>))

Keys == {Header("secret"), Header("Secret"), NoHeader}

\* the requests explored: every body with the right key on POST /rpc, and
\* every method, path and key with an append call as the body
Requests ==
  [httpMethod : {"POST"}, url : {"/rpc"}, apiKey : {Header("secret")},
   client : Clients, body : Bodies]
  \cup
  [httpMethod : {"OPTIONS", "GET", "POST"}, url : {"/health", "/rpc", "/files"},
   apiKey : Keys, client : Clients, body : {AppendBody}]

\* the requests explored where only the rate limiter matters
RateRequests ==
  [httpMethod : {"OPTIONS", "GET"}, url : {"/health"},
   apiKey : {Header("secret"), NoHeader}, client : Clients, body : {NoBody}]

Init ==
  /\ vault = [p \in {"a.md", "b.md", "dir"} |->
                CASE p = "a.md" -> File(<<"#", " ", "H">>)
                  [] p = "b.md" -> File(OtherDoc)
                  [] OTHER -> Folder]
  /\ before = vault
  /\ requestCounts = EmptyCounts
  /\ now = 0
  /\ \E max \in 1 .. MaxRate :
       settings = [DefaultSettings EXCEPT !.rateLimitPerMinute = max]
  /\ plugins = {"dataview"}
  /\ req = NoReq
  /\ res = NoRes
  /\ call = NoCall
  /\ ret = NoRet
  /\ hist = EmptyCounts
  /\ pending = << >>
  /\ stdout = << >>

\* the request is one the rate limiter sees
Counted(r, st) == r.httpMethod # "OPTIONS" /\ AuthOk(r, st)

\* the record of the windows as the requests and responses show them: for each
\* client the time its current window opened, the number of its requests
\* answered otherwise than 429 since then, and whether one was answered 429
Observe(h, r, t, response) ==
  LET fresh == r.client \notin DOMAIN h \/ t > h[r.client].start + WindowMs
      old == IF fresh THEN [start |-> t, allowed |-> 0, denied |-> FALSE]
             ELSE h[r.client]
      new == IF response.status = 429 THEN [old EXCEPT !.denied = TRUE]
             ELSE [old EXCEPT !.allowed = @ + 1]
  IN  [c \in DOMAIN h \cup {r.client} |-> IF c = r.client THEN new ELSE h[c]]

\* the state a handled request leaves: out is what handleRequest made of it
Served(r, out) ==
  /\ res.kind # "none"
  /\ \A p \in DOMAIN out.vault : Len(out.vault[p].text) <= MaxDocLen
  /\ req' = r
  /\ res' = out.res
  /\ requestCounts' = out.counts
  /\ before' = vault
  /\ vault' = out.vault
  /\ call' = out.call
  /\ ret' = out.ret
  /\ hist' = IF Counted(r, settings) THEN Observe(hist, r, now, out.res) ELSE hist
  /\ UNCHANGED <<now, settings, plugins>>

\* the server handles one request to its end; it handles none while a
\* handler that never ends keeps the event loop busy
HandleRequest(r) ==
  \E out \in {Handle(r, vault, requestCounts, now, settings, plugins)} :
      /\ Served(r, out)
      /\ UNCHANGED <<pending, stdout>>

\* time passes
Tick ==
  /\ now < MaxTicks * TickMs
  /\ now' = now + TickMs
  /\ UNCHANGED <<vault, before, requestCounts, settings, plugins, req, res, call, ret, hist, pending, stdout>>

\* the gateway within one rate-limit window
Next == \E r \in Requests : HandleRequest(r)

Spec == Init /\ [][Next]_vars

\* the rate limiter over several windows
NextRate == (\E r \in RateRequests : HandleRequest(r)) \/ Tick

SpecRate == Init /\ [][NextRate]_vars

-----------------------------------------------------------------------------
(* The gateway serving calls whose handlers fail *)

\* one call for each way a handler fails, and one that succeeds
FailingCalls ==
  {[method |-> "initialize", params |-> NoParams],
   [method |-> "rename_file", params |-> NoParams],
   [method |-> "tools/call", params |-> ToolCall("rename_file", NoArgs)],
   [method |-> "get_file_contents", params |-> Params("no.md", "", "", << >>, << >>)],
   [method |-> "append_content", params |-> Params("dir", "", "", << >>, <<"x">>)],
   [method |-> "delete_file", params |-> Params("a.md", "", "", << >>, << >>)],
   [method |-> "dataview_query", params |-> [NoParams EXCEPT !.query = Given(<<"q">>)]],
   [method |-> "patch_content",
    params |-> Params("a.md", "append", "heading", <<"G">>, <<"x">>)],
   [method |-> "patch_content",
    params |-> Params("a.md", "append", "block", TheTarget, <<"x">>)],
   [method |-> "patch_content",
    params |-> Params("a.md", "delete", "heading", TheTarget, <<"x">>)],
   [method |-> "patch_content",
    params |-> Params("a.md", "append", "line", TheTarget, <<"x">>)],
   [method |-> "simple_search", params |-> [NoParams EXCEPT !.query = Given(<< >>)]]}

\* the requests explored: each call with an id, from either client
FailRequests ==
  [httpMethod : {"POST"}, url : {"/rpc"}, apiKey : {Header("secret")}, client : Clients,
   body : {Body("object", c.method, id, c.params) : c \in FailingCalls, id \in {"1", "0"}}]

InitFail ==
  /\ vault = [p \in {"a.md", "b.md", "dir"} |->
                CASE p = "a.md" -> File(<<"#", " ", "H">>)
                  [] p = "b.md" -> File(OtherDoc)
                  [] OTHER -> Folder]
  /\ before = vault
  /\ requestCounts = EmptyCounts
  /\ now = 0
  /\ \E enabled \in BOOLEAN :
       settings = [DefaultSettings EXCEPT !.enableDataviewQueries = enabled]
  /\ plugins \in {{}, {"dataview"}}
  /\ req = NoReq
  /\ res = NoRes
  /\ call = NoCall
  /\ ret = NoRet
  /\ hist = EmptyCounts
  /\ pending = << >>
  /\ stdout = << >>

NextFail == \E r \in FailRequests : HandleRequest(r)

SpecFail == InitFail /\ [][NextFail]_vars

-----------------------------------------------------------------------------
(* The dispatcher applied to a bounded set of vaults and calls *)

\* a document with one Dataview block
DataviewDoc == <<DataviewFence, NL, "q", Fence>>

\* the vaults explored: a.md with or without a Dataview block, b.md, and the
\* folder dir absent, empty or holding n.md
CallVaults ==
  {[p \in {"a.md", "b.md"} \cup dirs |->
      CASE p = "a.md" -> File(d)
        [] p = "dir" -> Folder
        [] OTHER -> File(<<"x">>)] :
     d \in {<<"x">>, DataviewDoc}, dirs \in {{}, {"dir"}, {"dir", "dir/n.md"}}}

\* the arguments explored: every path with and without confirm, a query
\* that is not given, one the adapter refuses, and no arguments at all
CallArgs ==
  {[NoArgs EXCEPT !.filepath = f, !.content = <<"x">>, !.confirm = c,
                  !.operation = "append", !.target_type = "heading",
                  !.target = TheTarget, !.query = Given(<<"x">>), !.dirpath = "dir"] :
     f \in {"a.md", "no.md", "dir", "dir/n.md"}, c \in BOOLEAN}
  \cup {[NoArgs EXCEPT !.filepath = "a.md", !.query = q] : q \in {NotGiven, Given(BadQuery)}}
  \cup {NoArgs}

\* the params of a direct method call with the members of args
DirectCall(args) ==
  [f \in DOMAIN NoParams |-> IF f \in DOMAIN args THEN args[f] ELSE NoParams[f]]

\* the method names explored: the advertised tools and one that does not exist
CallNames == ToolNames \cup {"rename_file"}

InitCall ==
  /\ vault \in CallVaults
  /\ before = vault
  /\ requestCounts = EmptyCounts
  /\ now = 0
  /\ \E enabled \in BOOLEAN :
       settings = [DefaultSettings EXCEPT !.enableDataviewQueries = enabled]
  /\ plugins \in {{}, {"dataview"}}
  /\ req = NoReq
  /\ res = NoRes
  /\ call = NoCall
  /\ ret = NoRet
  /\ hist = EmptyCounts
  /\ pending = << >>
  /\ stdout = << >>

\* one call of executeMethod(method, params)
Execute(method, params) ==
  /\ call = NoCall
  /\ \E out \in {ExecuteMethod(vault, settings, plugins, method, params)} :
       /\ vault' = out.vault
       /\ ret' = [error |-> out.error, queries |-> out.queries,
                  result |-> out.result, returns |-> out.returns]
  /\ call' = [method |-> method, params |-> params]
  /\ before' = vault
  /\ UNCHANGED <<requestCounts, now, settings, plugins, req, res, hist, pending, stdout>>

\* a method called by its name, or as a tool through tools/call
NextCall ==
  \E name \in CallNames, args \in CallArgs :
    \/ Execute(name, DirectCall(args))
    \/ Execute("tools/call", ToolCall(name, args))

SpecCall == InitCall /\ [][NextCall]_vars

-----------------------------------------------------------------------------
(* simpleSearch applied to a bounded set of documents and queries *)

\* "Cat cat scatter"
CatDoc ==
  <<"C", "a", "t", " ", "c", "a", "t", " ", "s", "c", "a", "t", "t", "e", "r">>

RECURSIVE Words(_)
\* the texts of at most n letters over a and A
Words(n) ==
  IF n = 0 THEN {<< >>}
  ELSE Words(n - 1) \cup {w \o <<c>> : w \in Words(n - 1), c \in {"a", "A"}}

SearchDocs == Words(MaxSearchLen) \cup {CatDoc}

\* the queries explored: single letters, pairs that overlap themselves,
\* either case
Queries ==
  {<<"a">>, <<"A">>, <<"a", "a">>, <<"A", "a">>, <<"c", "a", "t">>, <<"C", "A", "T">>}

InitSearch ==
  /\ \E d \in SearchDocs, e \in {<< >>, <<"A", "a">>} :
       vault = [p \in {"a.md", "b.md", "dir"} |->
                  CASE p = "a.md" -> File(d)
                    [] p = "b.md" -> File(e)
                    [] OTHER -> Folder]
  /\ before = vault
  /\ requestCounts = EmptyCounts
  /\ now = 0
  /\ settings = DefaultSettings
  /\ plugins = {"dataview"}
  /\ req = NoReq
  /\ res = NoRes
  /\ call = NoCall
  /\ ret = NoRet
  /\ hist = EmptyCounts
  /\ pending = << >>
  /\ stdout = << >>

\* simple_search called by its name, or as a tool through tools/call
NextSearch ==
  \E q \in Queries, c \in 0 .. MaxContext :
    \/ Execute("simple_search",
               DirectCall([NoArgs EXCEPT !.query = Given(q), !.context_length = c]))
    \/ Execute("tools/call",
               ToolCall("simple_search",
                        [NoArgs EXCEPT !.query = Given(q), !.context_length = c]))

SpecSearch == InitSearch /\ [][NextSearch]_vars

-----------------------------------------------------------------------------
(* Regions of a document as the data model defines them, line by line *)

\* the end (exclusive) of the line that contains offset p
LineEndOf(s, p) == p + RunLen(s, p, "IsNotNL")

\* the line starting at p is a heading line with text t: 1-6 '#', blanks, t,
\* optional blanks, end of line
HeadingLineFor(s, t, p) ==
  LET h == RunLen(s, p, "IsHash")
      b == RunLen(s, p + h, "IsBlank")
      q == p + h + b + Len(t)
  IN  /\ AtLineStart(s, p)
      /\ h \in 1 .. 6
      /\ b >= 1
      /\ StartsWithAt(s, p + h + b, t)
      /\ q + RunLen(s, q, "IsBlank") = LineEndOf(s, p)

HeadingLines(s, t) == {p \in 0 .. (Len(s) - 1) : HeadingLineFor(s, t, p)}

\* a heading line of any level starts at p, by the pattern 1-6 '#' then whitespace
AnyHeadingAt(s, p) ==
  LET h == RunLen(s, p, "IsHash")
  IN  /\ AtLineStart(s, p)
      /\ h \in 1 .. 6
      /\ p + h < Len(s)
      /\ IsWs(At(s, p + h))

\* the start of the first heading line at or after offset from, else the end of s
NextHeadingStart(s, from) ==
  LET P == {p \in from .. (Len(s) - 1) : AnyHeadingAt(s, p)}
  IN  IF P = {} THEN Len(s) ELSE Min(P)

\* the section body of the first heading line with text t
SectionBody(s, t) ==
  LET e == LineEndOf(s, Min(HeadingLines(s, t)))
  IN  Substring(s, e, NextHeadingStart(s, e))

\* the line starting at p ends with the marker ^t and optional blanks
BlockLineFor(s, t, p) ==
  /\ AtLineStart(s, p)
  /\ \E m \in p .. LineEndOf(s, p) :
       /\ StartsWithAt(s, m, Marker(t))
       /\ m + 1 + Len(t) + RunLen(s, m + 1 + Len(t), "IsBlank") = LineEndOf(s, p)

BlockLines(s, t) == {p \in 0 .. Len(s) : BlockLineFor(s, t, p)}

IsPrefix(a, b) == Len(a) <= Len(b) /\ SubSeq(b, 1, Len(a)) = a

IsSuffix(a, b) == Len(a) <= Len(b) /\ SubSeq(b, Len(b) - Len(a) + 1, Len(b)) = a

\* the last call was patch_content on a.md with this target type
Patched(type) ==
  /\ call.method = "patch_content"
  /\ call.params.filepath = "a.md"
  /\ call.params.target_type = type

DocBefore == before["a.md"].text

DocAfter == vault["a.md"].text

-----------------------------------------------------------------------------
(* C1 *)

\* the last request reached the authentication check and failed it
Unauthorized(r) ==
  /\ r.httpMethod \notin {"", "OPTIONS"}
  /\ (~r.apiKey.present \/ r.apiKey.value # settings.apiKey)

\* C1: a request other than OPTIONS whose X-API-Key is absent or differs from
\* the configured key is answered 401 Unauthorized, and handling it changes
\* no rate-limit record and no document and executes no method.
C1_UnauthorizedRejected ==
  [][Unauthorized(req') =>
       /\ res' = HttpError(401, "Unauthorized")
       /\ requestCounts' = requestCounts
       /\ vault' = vault
       /\ call' = NoCall]_vars

\* an append call with a wrong key was rejected while its client had a record
W_C1 ==
  /\ Unauthorized(req)
  /\ req.httpMethod = "POST" /\ req.url = "/rpc"
  /\ req.client \in DOMAIN requestCounts
  /\ res.status = 401

(* C2 *)

\* C2: in every window of a client the first max requests are allowed and
\* every further one is answered 429; the first request after the window's
\* end is allowed and leaves count 1 and the window end now + window length.
C2_WindowQuota ==
  \A c \in DOMAIN hist :
    /\ c \in DOMAIN requestCounts
    /\ hist[c].allowed >= 1
    /\ hist[c].allowed <= settings.rateLimitPerMinute
    /\ hist[c].denied => hist[c].allowed = settings.rateLimitPerMinute
    /\ requestCounts[c] = [count |-> hist[c].allowed,
                           resetTime |-> hist[c].start + WindowMs]

\* in a window opened after an earlier one had ended, a client was allowed
\* max requests and then denied one
W_C2 ==
  \E c \in DOMAIN hist :
    /\ hist[c].start > WindowMs
    /\ hist[c].denied
    /\ res.status = 429

(* C3 *)

\* C3: every client's count stays between 1 and max, and a request answered
\* 429 leaves every rate-limit record as it was.
C3_CountBounded ==
  /\ [](\A c \in DOMAIN requestCounts :
          /\ requestCounts[c].count >= 1
          /\ requestCounts[c].count <= settings.rateLimitPerMinute)
  /\ [][(now' = now /\ res'.status = 429) => requestCounts' = requestCounts]_vars

\* a request was denied while its client's count was max
W_C3 ==
  /\ res.status = 429
  /\ req.client \in DOMAIN requestCounts
  /\ requestCounts[req.client].count = settings.rateLimitPerMinute

(* C4 *)

\* the last request was an authenticated POST /rpc within the quota
ServedRpc ==
  /\ req.httpMethod = "POST" /\ req.url = "/rpc"
  /\ AuthOk(req, settings)
  /\ res.status # 429

\* C4 as stated: every JSON body without an id member gets an empty response.
C4_NoIdNoBody ==
  (ServedRpc /\ req.body.json # "invalid" /\ req.body.id = "absent")
    => res.kind = "empty"

\* C4: a JSON object with a method and without an id member gets the empty
\* 200 response, whether its handler returns or throws.
C4_NotificationNoBody ==
  (ServedRpc /\ req.body.json = "object" /\ req.body.method # ""
   /\ req.body.id = "absent")
    => (res = EmptyResponse /\ call.method = req.body.method)

\* a notification whose handler threw was answered with an empty body
W_C4 ==
  /\ ServedRpc
  /\ req.body.id = "absent"
  /\ call.method = "rename_file"
  /\ ret.error = "Unknown method"
  /\ res.kind = "empty"

-----------------------------------------------------------------------------
(* C5 *)

\* C5: for every document in which heading H occurs exactly once and every
\* content C, after a successful heading replace the section of H located
\* again in the result has body C.
C5_ReplaceThenRelocate ==
  (/\ Patched("heading")
   /\ call.params.operation = "replace"
   /\ ret.error = ""
   /\ Cardinality(HeadingLines(DocBefore, TheTarget)) = 1)
  => /\ HeadingLines(DocAfter, TheTarget) # {}
     /\ SectionBody(DocAfter, TheTarget) = call.params.content

(* C6 *)

\* C6: a successful heading patch yields D[0 .. end of the heading line) +
\* new section body + D[start of the next heading line or end ..).
C6_HeadingFrame ==
  (/\ Patched("heading")
   /\ ret.error = ""
   /\ HeadingLines(DocBefore, TheTarget) # {})
  => LET e == LineEndOf(DocBefore, Min(HeadingLines(DocBefore, TheTarget)))
         n == NextHeadingStart(DocBefore, e)
     IN  DocAfter = Substring(DocBefore, 0, e)
                    \o NewSectionContent(call.params.operation,
                                         Substring(DocBefore, e, n),
                                         call.params.content)
                    \o SubstringFrom(DocBefore, n)

(* C7 *)

\* C7: a successful block patch changes only the line that carries the marker:
\* the text up to the start of that line and the text from its end on
\* (line terminators and blank lines included) are kept.
C7_BlockFrame ==
  (/\ Patched("block")
   /\ ret.error = ""
   /\ BlockLines(DocBefore, TheTarget) # {})
  => LET p == Min(BlockLines(DocBefore, TheTarget))
         e == LineEndOf(DocBefore, p)
     IN  /\ IsPrefix(Substring(DocBefore, 0, p), DocAfter)
         /\ IsSuffix(SubstringFrom(DocBefore, e), DocAfter)
         /\ Len(DocAfter) >= p + Len(DocBefore) - e

(* C8 *)

\* C8: if R is the result of appending C to the section of H, whose body was
\* B, then replacing the section of H in R by B + C succeeds and returns R.
C8_AppendIsReplaceConcat ==
  (/\ Patched("heading")
   /\ call.params.operation = "append"
   /\ ret.error = ""
   /\ HeadingLines(DocBefore, TheTarget) # {})
  => PatchHeading(DocAfter, "replace", TheTarget,
                  SectionBody(DocBefore, TheTarget) \o call.params.content)
       = [error |-> "", text |-> DocAfter]

(* C9 *)

\* C9: a heading or block patch whose target is not in the document fails
\* with the not-found error and no document of the store changes.
C9_NotFoundNoWrite ==
  /\ (Patched("heading") /\ HeadingLines(DocBefore, TheTarget) = {})
       => (ret.error = "Heading not found" /\ vault = before)
  /\ (Patched("block") /\ BlockLines(DocBefore, TheTarget) = {})
       => (ret.error = "Block reference not found" /\ vault = before)

(* C10 *)

\* C10: an operation outside append/prepend/replace or a target type outside
\* heading/block/frontmatter always fails and writes nothing; valid ones
\* never fail with the invalid-operation or invalid-target-type error.
C10_InvalidEnumFails ==
  call.method = "patch_content" =>
    /\ (call.params.operation \notin ValidOps
        \/ call.params.target_type \notin ValidTargetTypes)
         => (ret.error # "" /\ vault = before)
    /\ (call.params.operation \in ValidOps
        /\ call.params.target_type \in ValidTargetTypes)
         => ret.error \notin {"Invalid operation", "Invalid target type"}

\* an unknown operation on a heading that exists was refused
W_C10 ==
  /\ Patched("heading")
  /\ call.params.operation = "delete"
  /\ HeadingLines(DocBefore, TheTarget) # {}
  /\ ret.error = "Invalid operation"

(* C11 *)

RECURSIVE ValueAt(_, _)
\* the value found by following a key path from a mapping
ValueAt(obj, keys) ==
  IF Len(keys) = 0 THEN obj ELSE ValueAt(GetKey(obj, keys[1]), Tail(keys))

\* the calls made so far are frontmatter appends on one key path that was
\* absent from the metadata block at the start
AppendsOnAbsentKey ==
  /\ Len(hist.calls) >= 2
  /\ \A i \in 1 .. Len(hist.calls) :
       /\ hist.calls[i].operation = "append"
       /\ hist.calls[i].target = hist.calls[1].target
  /\ ValueAt(hist.start, Split(hist.calls[1].target, ".")) = Undefined

\* the value now at the key path of the calls
LeafNow == ValueAt(vault["a.md"].fm, Split(hist.calls[1].target, "."))

\* the values appended so far, as tryParseValue reads them
AppendedValues == [i \in 1 .. Len(hist.calls) |-> TryParseValue(hist.calls[i].content)]

\* C11 as stated: two appends on an absent key leave the sequence [v1, v2]
\* and a third leaves [v1, v2, v3], whatever the values are.
C11_AppendsMakeSequence ==
  AppendsOnAbsentKey => LeafNow = ArrVal(AppendedValues)

\* C11: when the first value appended on an absent key is read as a number, a
\* boolean or null, a second append leaves the sequence of the two values
\* and a third append leaves the sequence of the three, in insertion order.
C11_AppendsAfterNonString ==
  (AppendsOnAbsentKey /\ AppendedValues[1].t \in {"num", "bool", "null"})
    => LeafNow = ArrVal(AppendedValues)

\* three appends on the nested key m.k, the first of a number, left three elements
W_C11 ==
  /\ AppendsOnAbsentKey
  /\ Len(hist.calls) = 3
  /\ hist.calls[1].target = <<"m", ".", "k">>
  /\ AppendedValues[1].t = "num"
  /\ Len(LeafNow.items) = 3

(* C12 *)

\* the tool of the last call, by either calling convention
CalledTool == IF call.method = "tools/call" THEN call.params.name ELSE call.method

\* the arguments of the last call, by either calling convention
CalledArgs == IF call.method = "tools/call" THEN call.params.arguments ELSE call.params

\* C12: tools/call of get_file_contents with {filepath: X} and the direct
\* method get_file_contents with {filepath: X} fail with the same error or
\* return the same document text, the former inside the content envelope;
\* neither changes the store.
C12_GetFileContentsBothWays ==
  (call.method = "tools/call" /\ call.params.name = "get_file_contents") =>
    LET X == call.params.arguments.filepath
        direct == ExecuteMethod(before, settings, plugins, "get_file_contents",
                                DirectCall(call.params.arguments))
    IN  /\ ret.error = direct.error
        /\ ret.error = "" =>
             /\ direct.result = Result("text", before[X].text, << >>)
             /\ ret.result = Result("content", before[X].text, << >>)
        /\ vault = before
        /\ direct.vault = before

\* tools/call of get_file_contents returned the text of a.md in the envelope
W_C12 ==
  /\ call.method = "tools/call" /\ call.params.name = "get_file_contents"
  /\ call.params.arguments.filepath = "a.md"
  /\ ret.error = ""
  /\ ret.result.kind = "content"
  /\ ret.result.text = DataviewDoc

(* C13 *)

\* C13: every tool name that tools/list advertises is accepted as the name
\* of tools/call and as the method itself: it is never answered with
\* "Unknown tool" or "Unknown method".
C13_BothConventions ==
  /\ call.method \in ToolNames => ret.error # "Unknown method"
  /\ (call.method = "tools/call" /\ call.params.name \in ToolNames)
       => ret.error # "Unknown tool"

(* C14 *)

\* the offsets at which the lower-cased text contains the lower-cased query
Occurrences(content, q) ==
  {i \in 0 .. (Len(content) - Len(q)) :
     ToLowerCase(Substring(content, i, i + Len(q))) = ToLowerCase(q)}

\* the result the claim describes for the occurrence at offset i of a file
ExpectedHit(path, content, q, c, i) ==
  [file |-> path,
   match |-> SubSeq(content,
                    (IF i - c > 0 THEN i - c ELSE 0) + 1,
                    IF i + Len(q) + c < Len(content) THEN i + Len(q) + c ELSE Len(content)),
   position |-> i]

\* the results the claim describes for the vault before the call
ExpectedHits(q, c) ==
  UNION {{ExpectedHit(p, before[p].text, q, c, i) :
            i \in Occurrences(before[p].text, q)} :
           p \in {f \in DOMAIN before : before[f].kind = "file"}}

C15_ParseAndInvalidRequest ==
  ServedRpc =>
    /\ req.body.json = "invalid" => res = RpcError(400, -32700, "Parse error", "null")
    /\ (req.body.json # "invalid" /\ req.body.method = "") =>
         /\ res.kind = "error"
         /\ res.code = -32600
         /\ res.id = IF req.body.id = "absent" THEN "null" ELSE req.body.id

(* C16 *)

\* C16: an authenticated request within the quota, other than OPTIONS, GET
\* /health and POST /rpc, is answered 404 Not found.
C16_TwoRoutes ==
  (/\ req.httpMethod \notin {"", "OPTIONS"}
   /\ req.apiKey = Header(settings.apiKey)
   /\ res.status # 429
   /\ ~(req.httpMethod = "GET" /\ req.url = "/health")
   /\ ~(req.httpMethod = "POST" /\ req.url = "/rpc"))
    => res = HttpError(404, "Not found")

(* C17 *)

\* C17: a served POST /rpc request with a method and an id gets exactly one
\* response; when its handler fails, the response is the JSON-RPC error
\* -32603 with the handler's message and the request's id, and the gateway
\* goes on serving.
C17_HandlerErrorsAnswered ==
  (ServedRpc /\ req.body.json = "object" /\ req.body.method # ""
   /\ req.body.id # "absent") =>
    /\ res.kind \in {"result", "error"}
    /\ ret.error # "" => res = RpcError(200, -32603, ret.error, req.body.id)

(* C18 *)

\* C18: while enableDataviewQueries is false, dataview_query (by either
\* convention) and validate_dataview_query fail with "Dataview queries are
\* disabled", and no call of any method reaches the Dataview adapter.
C18_DisabledMeansNoQuery ==
  (call.method # "" /\ ~settings.enableDataviewQueries) =>
    /\ (\/ CalledTool = "dataview_query"
         \/ (call.method = "tools/call" /\ call.params.name = "validate_dataview_query"))
         => ret.error = "Dataview queries are disabled"
    /\ ret.queries = 0

(* C19 *)

\* C19: delete_file without a true confirm fails with "Deletion requires
\* confirmation" and leaves the store unchanged, whether or not the path
\* exists; delete_file removes a document only when confirm is true.
C19_DeleteNeedsConfirm ==
  CalledTool = "delete_file" =>
    /\ ~CalledArgs.confirm =>
         (ret.error = "Deletion requires confirmation" /\ vault = before)
    /\ (\E p \in DOMAIN before : before[p].kind = "file" /\ vault[p].kind # "file")
         => CalledArgs.confirm

\* delete_file of a path that does not exist was refused for want of confirm
W_C19 ==
  /\ CalledTool = "delete_file"
  /\ CalledArgs.filepath = "no.md"
  /\ ~CalledArgs.confirm
  /\ ret.error = "Deletion requires confirmation"

(* C20 *)

\* C20: append_content(p, c) creates a missing p with text c (after its
\* parent folder, if that is missing), gives an existing file with text t
\* the text t + c, fails with "Path is a directory" on a folder without
\* writing, and in every case leaves every other document as it was.
C20_AppendContent ==
  (CalledTool = "append_content" /\ CalledArgs.filepath # "") =>
    LET p == CalledArgs.filepath
        c == CalledArgs.content
        old == Lookup(before, p)
    IN  /\ old.kind = "none" =>
             /\ ret.error = ""
             /\ vault[p] = File(c)
             /\ DirOf(p) # "" => vault[DirOf(p)].kind = "folder"
        /\ old.kind = "file" =>
             /\ ret.error = ""
             /\ vault[p] = [old EXCEPT !.text = old.text \o c]
        /\ old.kind = "folder" =>
             (ret.error = "Path is a directory" /\ vault = before)
        /\ \A q \in DOMAIN before \ {p} : vault[q] = before[q]

\* append_content created dir/n.md and the folder dir that was missing
W_C20 ==
  /\ CalledTool = "append_content"
  /\ CalledArgs.filepath = "dir/n.md"
  /\ "dir" \notin DOMAIN before
  /\ vault["dir"].kind = "folder"
  /\ vault["dir/n.md"].text = <<"x">>

-----------------------------------------------------------------------------
(* Handlers running concurrently on the event loop.  The callback of
   createServer starts handleRequest for every request; a handler runs
   without interruption up to its next await, and the handlers of other
   requests run while it waits for the body, for vault.read or for
   vault.modify.  pending holds the handlers started, in the order of their
   arrival: the request r, the time at it arrived, whether the rate limiter
   counted it ("skipped", "allowed" or "denied"), the await it is waiting at
   (pc), the text vault.read gave it and the response it sent. *)

MaxHandlers == 3

MaxConcTicks == 1

\* a step of the clock that ends every open window
ConcTickMs == WindowMs + 1

\* handleRequest up to "await this.readBody(req)": the response sent there,
\* or NoRes when the handler goes on to read the body
Admit(r, counts, t, st) ==
  LET rate == CheckRateLimit(counts, r.client, t, st.rateLimitPerMinute)
      Sent(response, newCounts, counted) ==
        [res |-> response, counts |-> newCounts, counted |-> counted]
  IN  CASE r.httpMethod = "OPTIONS" -> Sent(EmptyResponse, counts, "skipped")
        [] ~AuthOk(r, st) -> Sent(HttpError(401, "Unauthorized"), counts, "skipped")
        [] ~rate.allowed -> Sent(HttpError(429, "Rate limit exceeded"), rate.counts, "denied")
        [] r.url = "/health" ->
             Sent(Response(200, "health", 0, "ok", "", Void), rate.counts, "allowed")
        [] r.httpMethod # "POST" \/ r.url # "/rpc" ->
             Sent(HttpError(404, "Not found"), rate.counts, "allowed")
        [] OTHER -> Sent(NoRes, rate.counts, "allowed")

\* a handler as it is started
Handler(r, t, admitted) ==
  [r |-> r, at |-> t, counted |-> admitted.counted,
   pc |-> IF admitted.res = NoRes THEN "body" ELSE "done",
   read |-> << >>, res |-> admitted.res]

\* the arguments the handler of a request works on
ArgsOf(body) ==
  IF body.method = "tools/call" THEN body.params.arguments ELSE body.params

\* the vault as a handler knows it: the text of its file is the one
\* vault.read returned to it
AsRead(v, h) == [v EXCEPT ![ArgsOf(h.r.body).filepath].text = h.read]

\* Writes computing the new text from the file as it is when vault.modify runs
Writes_FromCurrentText(v, st, pl, h) ==
  ExecuteMethod(v, st, pl, h.r.body.method, h.r.body.params)

\* what the handler computes from the text it read and hands to vault.modify:
\* the outcome of its method on the vault as it knows it
Writes(v, st, pl, h) ==
  ExecuteMethod(AsRead(v, h), st, pl, h.r.body.method, h.r.body.params)

\* the bodies of the concurrent requests: appends and heading patches on a.md
ConcBodies ==
  {Body("object", "append_content", "1", Params("a.md", "", "", << >>, <<"x">>)),
   Body("object", "patch_content", "2",
        Params("a.md", "append", "heading", TheTarget, <<"y">>)),
   Body("object", "patch_content", "3",
        Params("a.md", "replace", "heading", <<"Z">>, <<"y">>))}

ConcRequests ==
  [httpMethod : {"POST"}, url : {"/rpc"}, apiKey : {Header("secret")},
   client : Clients, body : ConcBodies]

InitConc ==
  /\ vault = [p \in {"a.md", "dir"} |->
                IF p = "a.md" THEN File(<<"#", " ", "H">>) ELSE Folder]
  /\ before = vault
  /\ requestCounts = EmptyCounts
  /\ now = 0
  /\ \E max \in 1 .. MaxRate :
       settings = [DefaultSettings EXCEPT !.rateLimitPerMinute = max]
  /\ plugins = {"dataview"}
  /\ req = NoReq
  /\ res = NoRes
  /\ call = NoCall
  /\ ret = NoRet
  /\ hist = EmptyCounts
  /\ pending = << >>
  /\ stdout = << >>

\* a request arrives: its handler runs up to the await of the body
Arrive(r) ==
  /\ Len(pending) < MaxHandlers
  /\ \E admitted \in {Admit(r, requestCounts, now, settings)} :
       /\ requestCounts' = admitted.counts
       /\ pending' = Append(pending, Handler(r, now, admitted))
       /\ req' = r
       /\ res' = IF admitted.res = NoRes THEN res ELSE admitted.res
  /\ UNCHANGED <<vault, before, now, settings, plugins, call, ret, hist, stdout>>

\* the body has arrived: the handler parses it, looks the file up and awaits
\* vault.read, or answers at once when the body or the path is refused
BodyRead(i) ==
  /\ pending[i].pc = "body"
  /\ \E rpc \in {HandleRpc(vault, settings, plugins, pending[i].r.body)} :
       IF rpc.call # NoCall
          /\ ~NotAFile(Lookup(vault, ArgsOf(pending[i].r.body).filepath))
       THEN /\ pending' = [pending EXCEPT ![i].pc = "read"]
            /\ UNCHANGED res
       ELSE /\ pending' = [pending EXCEPT ![i].pc = "done", ![i].res = rpc.res]
            /\ res' = rpc.res
  /\ UNCHANGED <<vault, before, requestCounts, now, settings, plugins, req, call, ret, hist, stdout>>

\* vault.read resolves: the handler computes the new text from the text read
\* and awaits vault.modify, or answers with the error the computation threw
VaultRead(i) ==
  /\ pending[i].pc = "read"
  /\ \E h \in {[pending[i] EXCEPT
                  !.read = vault[ArgsOf(pending[i].r.body).filepath].text]} :
     \E out \in {Writes(vault, settings, plugins, h)} :
       IF out.error = ""
       THEN /\ pending' = [pending EXCEPT ![i] = [h EXCEPT !.pc = "modify"]]
            /\ UNCHANGED res
       ELSE /\ pending' = [pending EXCEPT ![i] =
                             [h EXCEPT !.pc = "done",
                                       !.res = RpcResponse(h.r.body, out)]]
            /\ res' = RpcResponse(h.r.body, out)
  /\ UNCHANGED <<vault, before, requestCounts, now, settings, plugins, req, call, ret, hist, stdout>>

\* vault.modify writes the text the handler computed
VaultModify(i) ==
  /\ pending[i].pc = "modify"
  /\ \E out \in {Writes(vault, settings, plugins, pending[i])} :
       /\ vault' = out.vault
       /\ ret' = [error |-> out.error, queries |-> out.queries]
  /\ before' = vault
  /\ call' = [method |-> pending[i].r.body.method, params |-> pending[i].r.body.params]
  /\ pending' = [pending EXCEPT ![i].pc = "respond"]
  /\ UNCHANGED <<requestCounts, now, settings, plugins, req, res, hist, stdout>>

\* the handler resumes after vault.modify and sends its response
Respond(i) ==
  /\ pending[i].pc = "respond"
  /\ \E response \in {RpcResponse(pending[i].r.body, Ok(vault, Void))} :
       /\ pending' = [pending EXCEPT ![i].pc = "done", ![i].res = response]
       /\ res' = response
  /\ UNCHANGED <<vault, before, requestCounts, now, settings, plugins, req, call, ret, hist, stdout>>

\* time passes while handlers wait, and the windows open end
ConcTick ==
  /\ now < MaxConcTicks * ConcTickMs
  /\ now' = now + ConcTickMs
  /\ UNCHANGED <<vault, before, requestCounts, settings, plugins, req, res, call, ret, hist,
                 pending, stdout>>

NextConc ==
  \/ \E r \in ConcRequests : Arrive(r)
  \/ \E i \in 1 .. Len(pending) : BodyRead(i)
  \/ \E i \in 1 .. Len(pending) : VaultRead(i)
  \/ \E i \in 1 .. Len(pending) : VaultModify(i)
  \/ \E i \in 1 .. Len(pending) : Respond(i)
  \/ ConcTick

SpecConc == InitConc /\ [][NextConc]_vars

-----------------------------------------------------------------------------
(* C21 *)

\* the handlers of client c that the rate limiter let through in the window
\* the client's record describes
AllowedInWindow(c) ==
  {i \in DOMAIN pending :
     /\ pending[i].r.client = c
     /\ pending[i].counted = "allowed"
     /\ pending[i].at >= requestCounts[c].resetTime - WindowMs}

\* C21: whatever the interleaving of the handlers of concurrent requests, no
\* increment of a client's count is lost: the count is the number of the
\* client's requests let through in its window, and it never exceeds max.
C21_NoLostIncrement ==
  \A c \in DOMAIN requestCounts :
    /\ requestCounts[c].count = Cardinality(AllowedInWindow(c))
    /\ Cardinality(AllowedInWindow(c)) <= settings.rateLimitPerMinute

\* two requests of a client were let through and a third of the same client
\* was denied while the handlers of the first two were still waiting
W_C21 ==
  \E i, j, k \in DOMAIN pending :
    /\ i < j /\ j < k
    /\ pending[i].r.client = pending[j].r.client
    /\ pending[j].r.client = pending[k].r.client
    /\ pending[i].counted = "allowed" /\ pending[i].pc \in {"read", "modify"}
    /\ pending[j].counted = "allowed" /\ pending[j].pc \in {"body", "read"}
    /\ pending[k].counted = "denied" /\ pending[k].res.status = 429

-----------------------------------------------------------------------------
(* C22 *)

\* the text a handler's call makes of the text it read
NewText(h) ==
  LET args == ArgsOf(h.r.body)
  IN  IF h.r.body.method = "append_content"
      THEN h.read \o args.content
      ELSE PatchHeading(h.read, args.operation, args.target, args.content).text

\* the characters of a text
Chars(text) == {text[n] : n \in DOMAIN text}

\* C22: a patch or an append reads, computes and writes in separate steps:
\* when a handler's vault.modify runs, the document becomes what the handler
\* computed from the text it had read, whatever other handlers wrote in
\* between; so two concurrent requests can both succeed with the change of
\* the one that wrote first lost.
C22_WritesWhatItComputedFromItsRead ==
  [][\A i \in DOMAIN pending :
       (pending[i].pc = "modify" /\ pending'[i].pc = "respond")
         => vault'["a.md"].text = NewText(pending[i])]_vars

\* an append of x and a heading patch appending y, both answered with a
\* result, have left a document that has the y and not the x
W_C22 ==
  /\ Len(pending) = 2
  /\ \A i \in {1, 2} : pending[i].pc = "done" /\ pending[i].res.kind = "result"
  /\ pending[1].r.body.method = "append_content"
  /\ pending[2].r.body.method = "patch_content"
  /\ vault["a.md"].text = <<"#", " ", "H", "y">>
  /\ "x" \notin Chars(vault["a.md"].text)

-----------------------------------------------------------------------------
(* Search and listing over a vault that holds a note and a text file that is
   not a note *)

InitScan ==
  /\ \E d \in Words(MaxSearchLen), e \in Words(2) :
       vault = [p \in {"a.md", "c.txt", "dir"} |->
                  CASE p = "a.md" -> File(d)
                    [] p = "c.txt" -> File(e)
                    [] OTHER -> Folder]
  /\ before = vault
  /\ requestCounts = EmptyCounts
  /\ now = 0
  /\ settings = DefaultSettings
  /\ plugins = {"dataview"}
  /\ req = NoReq
  /\ res = NoRes
  /\ call = NoCall
  /\ ret = NoRet
  /\ hist = EmptyCounts
  /\ pending = << >>
  /\ stdout = << >>

\* the vault is listed, or searched for a one-letter query
NextScan ==
  \/ Execute("list_files_in_vault", NoParams)
  \/ \E q \in {<<"a">>, <<"A">>} :
       Execute("simple_search", DirectCall([NoArgs EXCEPT !.query = Given(q)]))

SpecScan == InitScan /\ [][NextScan]_vars

-----------------------------------------------------------------------------
(* C23 *)

\* C23: simple_search scans every document of the store: every document that
\* list_files_in_vault lists and whose text contains the query, whatever the
\* case, has at least one entry in the search result.
C23_SearchCoversListedFiles ==
  CalledTool = "simple_search" =>
    LET listed == ListFilesInVault(before)
        hits == ret.result.list
    IN  \A n \in DOMAIN listed :
          Occurrences(before[listed[n]].text, CalledArgs.query.text) # {}
            => \E k \in DOMAIN hits : hits[k].file = listed[n]

-----------------------------------------------------------------------------
(* Raw-text patches on documents that begin with a metadata block.  The text
   vault.read returns holds the block: a line of three dashes, the lines of
   the mapping, a line of three dashes, and then the body. *)

\* the line of three dashes that opens and closes the block, as one symbol
Dashes == "---"

\* lines of a metadata block: an entry, a comment, an entry whose value ends
\* in a caret word
MetaLines == {<<"k">>, <<"#", " ", "H">>, <<"k", " ", "^", "H">>}

\* the documents with a metadata block of one line and a body of at most
\* MaxLines - 1 lines
RawDocs ==
  {<<Dashes, NL>> \o m \o <<NL, Dashes, NL>> \o b :
     m \in MetaLines, b \in DocsOfLines(MaxLines - 1)}

\* the metadata block of a text: from the opening line of dashes through the
\* closing one, or nothing when the text has no such block
MetadataBlock(s) ==
  LET closing == {p \in 2 .. (Len(s) - 1) :
                    AtLineStart(s, p) /\ At(s, p) = Dashes /\ AtLineEnd(s, p + 1)}
  IN  IF Len(s) >= 2 /\ At(s, 0) = Dashes /\ At(s, 1) = NL /\ closing # {}
      THEN Substring(s, 0, Min(closing) + 1)
      ELSE << >>

RawParams ==
  [filepath : {"a.md"}, operation : ValidOps, target_type : {"heading", "block"},
   target : {TheTarget}, content : {<<"x">>}]

InitRaw ==
  /\ \E d \in RawDocs :
       vault = [p \in {"a.md", "dir"} |-> IF p = "a.md" THEN File(d) ELSE Folder]
  /\ before = vault
  /\ requestCounts = EmptyCounts
  /\ now = 0
  /\ settings = DefaultSettings
  /\ plugins = {"dataview"}
  /\ req = NoReq
  /\ res = NoRes
  /\ call = NoCall
  /\ ret = NoRet
  /\ hist = EmptyCounts
  /\ pending = << >>
  /\ stdout = << >>

NextRaw == \E params \in RawParams : PatchCall(params)

SpecRaw == InitRaw /\ [][NextRaw]_vars

-----------------------------------------------------------------------------
(* C24 *)

\* C24: a heading or block patch never changes a character of the metadata
\* block: for every document with a metadata block and every target, the
\* block of the result is the block of the input.
C24_RawPatchKeepsMetadata ==
  (call.method = "patch_content" /\ call.params.target_type \in {"heading", "block"})
    => MetadataBlock(vault["a.md"].text) = MetadataBlock(before["a.md"].text)

-----------------------------------------------------------------------------
(* simpleSearch step by step: the for loop over the files and the while loop
   over the occurrences.  pending holds the one search running: where it is
   (pc), the files to scan, the number n of the file at hand, the index of
   the while loop and the results pushed so far. *)

\* the results the memory holds: more than any search of the documents
\* explored can find, one match per position of every file included
MaxHits == 2 * (MaxSearchLen + 1) + 1

Queries0 == {<< >>, <<"a">>, <<"A", "a">>}

InitLoop ==
  /\ \E d \in Words(MaxSearchLen), e \in {<< >>, <<"A", "a">>} :
       vault = [p \in {"a.md", "b.md", "dir"} |->
                  CASE p = "a.md" -> File(d)
                    [] p = "b.md" -> File(e)
                    [] OTHER -> Folder]
  /\ before = vault
  /\ requestCounts = EmptyCounts
  /\ now = 0
  /\ settings = DefaultSettings
  /\ plugins = {"dataview"}
  /\ req = NoReq
  /\ res = NoRes
  /\ call = NoCall
  /\ ret = NoRet
  /\ hist = EmptyCounts
  /\ pending = << >>
  /\ stdout = << >>

\* simpleSearch is entered with a query
StartSearch(q) ==
  /\ call = NoCall
  /\ call' = [method |-> "simple_search",
              params |-> DirectCall([NoArgs EXCEPT !.query = Given(q)])]
  /\ pending' = <<[pc |-> "for", files |-> GetMarkdownFiles(vault), n |-> 1,
                   index |-> -1, results |-> << >>]>>
  /\ UNCHANGED <<vault, before, requestCounts, now, settings, plugins, req, res, ret, hist, stdout>>

\* the for loop takes the next file and looks for the first occurrence, or
\* the function returns its results when no file is left
ForStep ==
  /\ pending # << >> /\ pending[1].pc = "for"
  /\ \E s \in {pending[1]} :
       IF s.n > Len(s.files)
       THEN /\ pending' = <<[s EXCEPT !.pc = "returned"]>>
            /\ ret' = [error |-> "", queries |-> 0,
                       result |-> Result("hits", << >>, s.results), returns |-> TRUE]
       ELSE /\ pending' =
                 <<[s EXCEPT !.pc = "while",
                             !.index = IndexOf(ToLowerCase(vault[s.files[s.n]].text),
                                               ToLowerCase(call.params.query.text), 0)]>>
            /\ UNCHANGED ret
  /\ UNCHANGED <<vault, before, requestCounts, now, settings, plugins, req, res, call, hist, stdout>>

\* one turn of the while loop: a result is pushed and the next occurrence is
\* looked for from index + 1; the loop ends when index is -1
WhileStep ==
  /\ pending # << >> /\ pending[1].pc = "while"
  /\ Len(pending[1].results) < MaxHits
  /\ \E s \in {pending[1]} :
       IF s.index = -1
       THEN pending' = <<[s EXCEPT !.pc = "for", !.n = @ + 1]>>
       ELSE pending' =
              <<[s EXCEPT
                   !.results = Append(@, Hit(s.files[s.n], vault[s.files[s.n]].text,
                                             call.params.query.text,
                                             call.params.context_length, s.index)),
                   !.index = IndexOf(ToLowerCase(vault[s.files[s.n]].text),
                                     ToLowerCase(call.params.query.text), s.index + 1)]>>
  /\ UNCHANGED <<vault, before, requestCounts, now, settings, plugins, req, res, call, ret,
                 hist, stdout>>

\* the results array has filled the memory: the process ends without an answer
OutOfMemory ==
  /\ pending # << >> /\ pending[1].pc = "while"
  /\ Len(pending[1].results) >= MaxHits
  /\ pending' = <<[pending[1] EXCEPT !.pc = "out of memory"]>>
  /\ UNCHANGED <<vault, before, requestCounts, now, settings, plugins, req, res, call, ret,
                 hist, stdout>>

Running == ForStep \/ WhileStep \/ OutOfMemory

NextLoop == (\E q \in Queries0 : StartSearch(q)) \/ ForStep \/ WhileStep \/ OutOfMemory

\* a search that was entered keeps running
SpecLoop == InitLoop /\ [][NextLoop]_vars /\ WF_vars(Running)

-----------------------------------------------------------------------------
(* C25 *)

\* C25: simple_search terminates on every finite document set for every
\* query, the empty one included: a search that was entered returns a finite
\* result after finitely many steps.
C25_SearchTerminates ==
  (call.method = "simple_search") ~> (pending # << >> /\ pending[1].pc = "returned")

-----------------------------------------------------------------------------
(* Bursts at the boundary of a window: health probes of the clients arriving
   at any times; pending holds the handler of every probe, with the time it
   arrived at and whether the rate limiter let it through *)

MaxProbes == 5

ProbeRequests ==
  [httpMethod : {"GET"}, url : {"/health"}, apiKey : {Header("secret")},
   client : Clients, body : {NoBody}]

\* a probe arrives and is answered at once
Probe(r) ==
  /\ Len(pending) < MaxProbes
  /\ \E admitted \in {Admit(r, requestCounts, now, settings)} :
       /\ requestCounts' = admitted.counts
       /\ pending' = Append(pending, Handler(r, now, admitted))
       /\ req' = r
       /\ res' = admitted.res
  /\ UNCHANGED <<vault, before, now, settings, plugins, call, ret, hist, stdout>>

NextBurst == (\E r \in ProbeRequests : Probe(r)) \/ Tick

SpecBurst == Init /\ [][NextBurst]_vars

-----------------------------------------------------------------------------
(* C26 *)

\* the requests of the client of request i that were let through within the
\* interval of one window length that begins when request i arrives
AllowedWithin(i) ==
  {j \in DOMAIN pending :
     /\ pending[j].r.client = pending[i].r.client
     /\ pending[j].counted = "allowed"
     /\ pending[j].at >= pending[i].at
     /\ pending[j].at <= pending[i].at + WindowMs}

\* C26: for every client and every sequence of request times, the number of
\* the client's requests let through within any interval of one window
\* length is at most 2 * max.
C26_BurstAtMostTwiceMax ==
  \A i \in DOMAIN pending :
    Cardinality(AllowedWithin(i)) <= 2 * settings.rateLimitPerMinute

\* a burst at a boundary: within one window length more than max requests of
\* a client were let through, the last of a window and the first of the next
W_C26 ==
  \E i \in DOMAIN pending :
    /\ pending[i].counted = "allowed"
    /\ Cardinality(AllowedWithin(i)) > settings.rateLimitPerMinute
    /\ \E j \in AllowedWithin(i) : pending[j].at > pending[i].at

-----------------------------------------------------------------------------
(* Frontmatter patches with a dotted target on metadata blocks whose
   intermediate key m is absent or holds a value of every kind *)

NumVal(s) == ScalarVal("num", s)

NullVal == ScalarVal("null", <<"n", "u", "l", "l">>)

\* the values found at the intermediate key m: none, a number, a string,
\* null, a sequence, and mappings
IntermediateValues ==
  {Undefined, NumVal(<<"1">>), StrVal(<<"a">>), NullVal,
   ArrVal(<<NumVal(<<"1">>)>>),
   SetKey(EmptyObj, <<"j">>, NumVal(<<"1">>)),
   SetKey(SetKey(EmptyObj, <<"j">>, NumVal(<<"1">>)), <<"n">>, ArrVal(<<StrVal(<<"a">>)>>)),
   SetKey(SetKey(EmptyObj, <<"k">>, StrVal(<<"a">>)), <<"n">>, NumVal(<<"1">>))}

\* the metadata blocks explored: a sibling entry s, and m unless it is absent
DescendStarts ==
  {IF m = Undefined THEN root ELSE SetKey(root, <<"m">>, m) :
     m \in IntermediateValues,
     root \in {EmptyObj, SetKey(EmptyObj, <<"s">>, StrVal(<<"a">>))}}

DescendParams ==
  [filepath : {"a.md"}, operation : ValidOps, target_type : {"frontmatter"},
   target : {<<"m", ".", "k">>, <<"m", ".", "n", ".", "k">>}, content : FmContents]

InitDescend ==
  /\ \E start \in DescendStarts :
       vault = [p \in {"a.md"} |-> [File(<<"x">>) EXCEPT !.fm = start]]
  /\ before = vault
  /\ requestCounts = EmptyCounts
  /\ now = 0
  /\ settings = DefaultSettings
  /\ plugins = {"dataview"}
  /\ req = NoReq
  /\ res = NoRes
  /\ call = NoCall
  /\ ret = NoRet
  /\ hist = EmptyCounts
  /\ pending = << >>
  /\ stdout = << >>

NextDescend == \E params \in DescendParams : PatchCall(params)

SpecDescend == InitDescend /\ [][NextDescend]_vars

-----------------------------------------------------------------------------
(* C27 *)

\* the entries of mapping b other than key are in a with the values they had
OthersKept(b, a, key) ==
  \A n \in 1 .. Len(b.keys) :
    b.keys[n] # key => GetKey(a, b.keys[n]) = b.items[n]

RECURSIVE IntermediatesAsClaimed(_, _, _)
\* along the key path keys, from the mapping b before to the mapping a after:
\* an intermediate key that held a mapping still holds one, with its other
\* entries kept; one that held anything else holds a mapping with the next
\* key as its only entry
IntermediatesAsClaimed(b, a, keys) ==
  Len(keys) > 1 =>
    LET bv == GetKey(b, keys[1])
        av == GetKey(a, keys[1])
    IN  /\ av.t = "obj"
        /\ OthersKept(b, a, keys[1])
        /\ IF bv.t = "obj"
           THEN /\ OthersKept(bv, av, keys[2])
                /\ IntermediatesAsClaimed(bv, av, Tail(keys))
           ELSE /\ av.keys = <<keys[2]>>
                /\ IntermediatesAsClaimed(EmptyObj, av, Tail(keys))

\* C27: a frontmatter patch with the dotted target k1.k2...kn replaces every
\* intermediate key whose value is absent or is not a mapping (a scalar, a
\* string, null or a sequence) by an empty mapping before descending, and
\* keeps an intermediate key that is a mapping with its other entries.
C27_IntermediateKeys ==
  (call.method = "patch_content" /\ call.params.target_type = "frontmatter")
    => /\ ret.error = ""
       /\ IntermediatesAsClaimed(before["a.md"].fm, vault["a.md"].fm,
                                 Split(call.params.target, "."))

-----------------------------------------------------------------------------
(* Frontmatter patches whose content is a literal of every kind, or none *)

\* the contents explored: structured literals (a number, booleans, null, a
\* string literal, arrays, an object) and contents that are none (a word, the
\* word undefined, a digit string with a leading zero, an unclosed array, a
\* blank, the empty content)
LeafContents ==
  {<<"1">>, <<"t", "r", "u", "e">>, <<"f", "a", "l", "s", "e">>, <<"n", "u", "l", "l">>,
   <<"\"", "a", "\"">>, <<"[", "1", "]">>, <<"[", "]">>, <<"{", "}">>,
   <<"a">>, <<"u", "n", "d", "e", "f", "i", "n", "e", "d">>, <<"0", "1">>,
   <<"[", "1">>, <<" ">>, << >>}

LeafParams ==
  [filepath : {"a.md"}, operation : ValidOps, target_type : {"frontmatter"},
   target : FmTargets, content : LeafContents]

InitLeaf ==
  /\ \E start \in {EmptyObj, SetKey(EmptyObj, <<"k">>, StrVal(<<"a">>))} :
       vault = [p \in {"a.md"} |-> [File(<<"x">>) EXCEPT !.fm = start]]
  /\ before = vault
  /\ requestCounts = EmptyCounts
  /\ now = 0
  /\ settings = DefaultSettings
  /\ plugins = {"dataview"}
  /\ req = NoReq
  /\ res = NoRes
  /\ call = NoCall
  /\ ret = NoRet
  /\ hist = EmptyCounts
  /\ pending = << >>
  /\ stdout = << >>

NextLeaf == \E params \in LeafParams : PatchCall(params)

SpecLeaf == InitLeaf /\ [][NextLeaf]_vars

-----------------------------------------------------------------------------
(* C28 *)

\* the structured literals among the contents explored, each with the value
\* it encodes
LiteralValues ==
  {[content |-> <<"1">>, value |-> NumVal(<<"1">>)],
   [content |-> <<"t", "r", "u", "e">>, value |-> ScalarVal("bool", <<"t", "r", "u", "e">>)],
   [content |-> <<"f", "a", "l", "s", "e">>,
    value |-> ScalarVal("bool", <<"f", "a", "l", "s", "e">>)],
   [content |-> <<"n", "u", "l", "l">>, value |-> NullVal],
   [content |-> <<"\"", "a", "\"">>, value |-> StrVal(<<"a">>)],
   [content |-> <<"[", "1", "]">>, value |-> ArrVal(<<NumVal(<<"1">>)>>)],
   [content |-> <<"[", "]">>, value |-> ArrVal(<< >>)],
   [content |-> <<"{", "}">>, value |-> EmptyObj]}

\* the value the claim has a replace store for a content
ClaimedLeaf(content) ==
  IF \E l \in LiteralValues : l.content = content
  THEN (CHOOSE l \in LiteralValues : l.content = content).value
  ELSE StrVal(content)

\* C28: a frontmatter replace stores at the leaf the value decoded from
\* content when content is a valid structured literal, and the plain string
\* content itself, unchanged, for every content that is not one.
C28_ReplaceStoresLiteralOrString ==
  (call.method = "patch_content" /\ call.params.operation = "replace")
    => ValueAt(vault["a.md"].fm, Split(call.params.target, "."))
         = ClaimedLeaf(call.params.content)

-----------------------------------------------------------------------------
(* Block patches on documents whose lines are empty, plain, or of the shape
   L ^T with L a word or nothing *)

BlockSpecLines == {<< >>, <<"H">>, <<"H", " ", "^", "H">>, <<" ", "^", "H">>}

RECURSIVE BlockDocs(_)
\* the documents of at most n such lines
BlockDocs(n) ==
  IF n = 1 THEN BlockSpecLines
  ELSE LET D == BlockDocs(n - 1)
       IN  D \cup {d \o <<NL>> \o l : d \in D, l \in BlockSpecLines}

BlockParams ==
  [filepath : {"a.md"}, operation : ValidOps, target_type : {"block"},
   target : {TheTarget}, content : Contents]

InitBlock ==
  /\ \E d \in BlockDocs(MaxLines) :
       vault = [p \in {"a.md", "dir"} |-> IF p = "a.md" THEN File(d) ELSE Folder]
  /\ before = vault
  /\ requestCounts = EmptyCounts
  /\ now = 0
  /\ settings = DefaultSettings
  /\ plugins = {"dataview"}
  /\ req = NoReq
  /\ res = NoRes
  /\ call = NoCall
  /\ ret = NoRet
  /\ hist = EmptyCounts
  /\ pending = << >>
  /\ stdout = << >>

NextBlock == \E params \in BlockParams : PatchCall(params)

SpecBlock == InitBlock /\ [][NextBlock]_vars

-----------------------------------------------------------------------------
(* C29 *)

\* the L of the line L ^T that starts at p: the line without the marker and
\* the blanks around it
LineContent(s, t, p) ==
  LET m == Min({n \in p .. LineEndOf(s, p) :
                  /\ StartsWithAt(s, n, Marker(t))
                  /\ n + 1 + Len(t) + RunLen(s, n + 1 + Len(t), "IsBlank")
                       = LineEndOf(s, p)})
      blanks == {k \in 0 .. (m - p) :
                   \A n \in (m - k) .. (m - 1) : At(s, n) \in {" ", "\t"}}
  IN  Substring(s, p, m - Max(blanks))

\* the line the claim has the patch make of L
ClaimedLine(operation, L, t, content) ==
  CASE operation = "append" -> L \o content \o <<" ">> \o Marker(t)
    [] operation = "prepend" -> content \o L \o <<" ">> \o Marker(t)
    [] OTHER -> content \o <<" ">> \o Marker(t)

\* C29: a successful block patch on the line L ^T with content C turns the
\* line into L C ^T for append, C L ^T for prepend and C ^T for replace: the
\* marker stays at the end of the patched line, and a following block patch
\* with the same target finds it again.
C29_BlockLinePatched ==
  (/\ Patched("block")
   /\ ret.error = ""
   /\ BlockLines(DocBefore, TheTarget) # {})
  => LET p == Min(BlockLines(DocBefore, TheTarget))
         claimed == ClaimedLine(call.params.operation,
                                LineContent(DocBefore, TheTarget, p),
                                TheTarget, call.params.content)
     IN  /\ p <= Len(DocAfter)
         /\ AtLineStart(DocAfter, p)
         /\ IsPrefix(claimed, SubstringFrom(DocAfter, p))
         /\ AtLineEnd(DocAfter, p + Len(claimed))
         /\ BlockMatch(DocAfter, TheTarget).index # -1

-----------------------------------------------------------------------------
(* The stdio bridge: a process that reads JSON-RPC requests from stdin, one
   per line, posts each to /rpc of the server with its API key and writes
   what it gets to stdout.  stdout holds the lines written, settings the key
   the bridge was started with next to the settings of the server. *)

MaxStdout == 3

\* a line written to stdout: the message written at startup, the response
\* of the server, or the error the bridge makes of a failure
InitLine == [kind |-> "init", res |-> NoRes, message |-> ""]

ResponseLine(response) == [kind |-> "response", res |-> response, message |-> ""]

ErrorLine(message) ==
  [kind |-> "error", res |-> RpcError(0, -32603, message, "null"), message |-> message]

\* the POST request forwardToHTTP makes of a parsed line
Forwarded(line, st) ==
  [httpMethod |-> "POST", url |-> "/rpc", apiKey |-> Header(st.bridgeApiKey),
   client |-> "127.0.0.1", body |-> line]

\* the end of forwardToHTTP and of the line callback: JSON.parse(data) throws
\* on an empty body and the catch block writes an error line; any other body
\* is written as it came
Written(response) ==
  IF response.kind = "empty"
  THEN ErrorLine("Invalid JSON response: ")
  ELSE ResponseLine(response)

\* the lines read from stdin: the bodies sent to /rpc, one of them not JSON
BridgeLines == Bodies

InitBridge ==
  /\ vault = [p \in {"a.md", "b.md", "dir"} |->
                CASE p = "a.md" -> File(<<"#", " ", "H">>)
                  [] p = "b.md" -> File(OtherDoc)
                  [] OTHER -> Folder]
  /\ before = vault
  /\ requestCounts = EmptyCounts
  /\ now = 0
  /\ \E key \in {"secret", "test-key-123"} :
       settings = [apiKey |-> "secret", rateLimitPerMinute |-> MaxRate,
                   enableDataviewQueries |-> TRUE, bridgeApiKey |-> key]
  /\ plugins = {"dataview"}
  /\ req = NoReq
  /\ res = NoRes
  /\ call = NoCall
  /\ ret = NoRet
  /\ hist = EmptyCounts
  /\ pending = << >>
  /\ stdout = <<InitLine>>

\* a line that is not JSON: JSON.parse(line) throws and nothing is forwarded
BadLine(line) ==
  /\ pending = << >>
  /\ Len(stdout) < MaxStdout
  /\ line.json = "invalid"
  /\ stdout' = Append(stdout, ErrorLine("Unexpected token"))
  /\ UNCHANGED <<vault, before, requestCounts, now, settings, plugins, req, res, call, ret,
                 hist, pending>>

\* a line that is JSON while the server does not listen: the request fails
Refused(line) ==
  /\ pending = << >>
  /\ Len(stdout) < MaxStdout
  /\ line.json # "invalid"
  /\ stdout' = Append(stdout, ErrorLine("connect ECONNREFUSED"))
  /\ UNCHANGED <<vault, before, requestCounts, now, settings, plugins, req, res, call, ret,
                 hist, pending>>

\* a line that is JSON: it is posted to the server and the server handles
\* it; pending holds the line with the response on its way to the bridge
Line(line) ==
  /\ pending = << >>
  /\ Len(stdout) < MaxStdout
  /\ line.json # "invalid"
  /\ \E out \in {Handle(Forwarded(line, settings), vault, requestCounts, now, settings,
                        plugins)} :
       /\ Served(Forwarded(line, settings), out)
       /\ pending' = <<[line |-> line, response |-> out.res]>>
  /\ UNCHANGED stdout

\* the response has arrived: the bridge parses it and writes its line
Answer ==
  /\ pending # << >>
  /\ stdout' = Append(stdout, Written(pending[1].response))
  /\ pending' = << >>
  /\ UNCHANGED <<vault, before, requestCounts, now, settings, plugins, req, res, call, ret,
                 hist>>

\* the bridge takes the lines of stdin one at a time
NextBridge ==
  \/ \E line \in BridgeLines : BadLine(line) \/ Refused(line) \/ Line(line)
  \/ Answer

SpecBridge == InitBridge /\ [][NextBridge]_vars

-----------------------------------------------------------------------------
(* C30 *)

\* C30: the bridge writes nothing to stdout for a notification: when the
\* line is a request without id, it is forwarded to POST /rpc and, the
\* server answering with an empty body, no response line and no error line
\* is written for it.
C30_NotificationWritesNothing ==
  [][(/\ pending # << >>
      /\ pending[1].line.method # "" /\ pending[1].line.id = "absent"
      /\ pending[1].response.kind = "empty")
       => stdout' = stdout]_vars

=============================================================================
